---- MODULE Spec2Model ----
(***************************************************************************)
(* Model of the intel_gpu plugin's ProgramBuilder (program_builder.cpp)    *)
(* and of the MatMul builder (ops/matmul.cpp), and of RemoteTensorImpl     *)
(* (remote_tensor.cpp).                                                    *)
(*                                                                         *)
(* Primitive ids and node identities are strings, built by concatenation   *)
(* exactly as the code builds them.  A builder object is the tuple of the  *)
(* variables below; build() is split into its three phases (regime scan +  *)
(* prepare, the per-node loop, finalize), is_op_supported() is one step.   *)
(***************************************************************************)
EXTENDS Integers, Sequences, FiniteSets, TLC

VARIABLES
    primitive_ids,          \* ProgramBuilder::primitive_ids : id -> primitive id
    m_topology,             \* ProgramBuilder::m_topology : [live, prims]
    perfMap,                \* ProgramBuilder::perfMap : primitive id -> perf entry
    profiling_ids,          \* ProgramBuilder::profiling_ids
    allow_new_shape_infer,  \* ProgramBuilder::allow_new_shape_infer
    queryMode,              \* ProgramBuilder::queryMode
    m_program,              \* ProgramBuilder::m_program : [built, prims]
    cfg_allow_new_shape_infer, \* m_config[ov::intel_gpu::allow_new_shape_infer]
    enable_profiling,       \* m_config[ov::enable_profiling]
    supports_immad,         \* engine.get_device_info().supports_immad
    m_custom_layers,        \* ProgramBuilder::m_custom_layers (type names with an override)
    factories_map,          \* ProgramBuilder::factories_map (registered type identities)
    pc,                     \* position of the build() call on this builder
    ops,                    \* build()'s argument: the operation list (node names)
    create_topology_only,   \* build()'s argument
    is_inner_program,       \* build()'s argument
    opIdx,                  \* index of the next node of the loop at lines 151-153
    err,                    \* the exception that left build(), <<>> when none
    dispatch,               \* the builders the last CreateSingleLayerPrimitive invoked
    lowered,                \* per lowered node of this build: the regime flag it observed
    pidsAtBuild,            \* primitive_ids when build() was entered
    nQueries,               \* number of is_op_supported calls made so far
    lastQuery,              \* the last is_op_supported call: node, result, state before
    step,                   \* the operation that made the last step
    compilerCalls,          \* number of calls of cldnn::program::build_program
    m_mutex,                \* ProgramBuilder::m_mutex : the unit holding it, "" when free
    reg,                    \* per initialization unit: position in its registrations
    tensor_pc,              \* the RemoteTensorImpl object: "none", "alive" or "failed"
    m_element_type,         \* RemoteTensorImpl::m_element_type
    m_shape,                \* RemoteTensorImpl::m_shape
    m_layout,               \* RemoteTensorImpl::m_layout : [data_type, format, shape]
    m_mem_type,             \* RemoteTensorImpl::m_mem_type
    m_mem,                  \* RemoteTensorImpl::m_mem : the user's handle
    m_hash,                 \* RemoteTensorImpl::m_hash
    m_strides,              \* RemoteTensorImpl::m_strides
    m_memory_object,        \* RemoteTensorImpl::m_memory_object : [live, alloc, layout, handle]
    m_properties,           \* RemoteTensorImpl::m_properties
    memory_cache,           \* the context's cache of shared memory objects, by hash
    tensor_err,             \* the exception that left the last RemoteTensorImpl call
    lastCall                \* the last RemoteTensorImpl call: op, shape, tensor before

vars == << primitive_ids, m_topology, perfMap, profiling_ids, allow_new_shape_infer,
           queryMode, m_program, cfg_allow_new_shape_infer, enable_profiling,
           supports_immad, m_custom_layers, factories_map, pc, ops,
           create_topology_only, is_inner_program, opIdx, err, dispatch, lowered,
           pidsAtBuild, nQueries, lastQuery, step, compilerCalls, m_mutex, reg,
           tensor_pc, m_element_type, m_shape, m_layout, m_mem_type, m_mem, m_hash,
           m_strides, m_memory_object, m_properties, memory_cache, tensor_err, lastCall >>

-----------------------------------------------------------------------------
(* Bounds *)

\* is_op_supported calls made on one builder
MaxQueries == 2

-----------------------------------------------------------------------------
(* The graph nodes the builder is given (ov::Node, consumed as is). *)

Dyn == -1   \* a dynamic dimension of a partial shape

In(n, i) == [node |-> n, index |-> i]

Node(name, type, inputs, outShapes, etype, ta, tb) ==
    [name |-> name, type |-> type, inputs |-> inputs, outShapes |-> outShapes,
     etype |-> etype, transpose_a |-> ta, transpose_b |-> tb]

NodeNames == {"x", "y", "p", "d", "mm1", "mm2", "mm3", "mmd", "s", "mm4", "u", "c", "mm5",
              "fm", "g", "t", "mmt", "t2", "mmt2", "pi", "q", "a2", "bv", "k",
              "mm6", "mm7", "mm8", "mm9",
              "x4", "mm10", "r6", "r7", "fc", "v", "mm11", "mm13", "dl", "mm12", "t3", "mm14"}

Graph ==
    [n \in NodeNames |->
        CASE n = "x"   -> Node(n, "Parameter", <<>>, << <<16, 16>> >>, "f32", FALSE, FALSE)
          [] n = "y"   -> Node(n, "Parameter", <<>>, << <<16, 16>> >>, "f32", FALSE, FALSE)
          [] n = "p"   -> Node(n, "Parameter", <<>>, << <<1000, 1000>> >>, "f32", FALSE, FALSE)
          [] n = "d"   -> Node(n, "Parameter", <<>>, << <<Dyn, 16>> >>, "f32", FALSE, FALSE)
          [] n = "mm1" -> Node(n, "MatMul", <<In("x", 0), In("y", 0)>>, << <<16, 16>> >>, "f32", TRUE, FALSE)
          [] n = "mm2" -> Node(n, "MatMul", <<In("p", 0), In("p", 0)>>, << <<1000, 1000>> >>, "f32", TRUE, TRUE)
          [] n = "mm3" -> Node(n, "MatMul", <<In("mm1", 0), In("y", 0)>>, << <<16, 16>> >>, "f32", FALSE, FALSE)
          [] n = "mmd" -> Node(n, "MatMul", <<In("d", 0), In("y", 0)>>, << <<Dyn, 16>> >>, "f32", FALSE, FALSE)
          [] n = "s"   -> Node(n, "Split", <<In("p", 0)>>, << <<500, 1000>>, <<500, 1000>> >>, "f32", FALSE, FALSE)
          [] n = "mm4" -> Node(n, "MatMul", <<In("s", 0), In("s", 1)>>, << <<500, 500>> >>, "f32", FALSE, TRUE)
          [] n = "u"   -> Node(n, "Mystery", <<In("x", 0)>>, << <<16, 16>> >>, "f32", FALSE, FALSE)
          [] n = "c"   -> Node(n, "MyCustom", <<In("x", 0)>>, << <<16, 16>> >>, "f32", FALSE, FALSE)
          [] n = "mm5" -> Node(n, "MatMul", <<In("x", 0), In("y", 0), In("y", 0)>>, << <<16, 16>> >>, "f32", FALSE, FALSE)
          [] n = "fm"  -> Node(n, "FusedMatMul", <<In("x", 0), In("y", 0)>>, << <<16, 16>> >>, "f32", FALSE, FALSE)
          [] n = "g"   -> Node(n, "GemmEx", <<In("fm", 0), In("y", 0)>>, << <<16, 16>> >>, "f32", FALSE, FALSE)
          [] n = "t"   -> Node(n, "TopK", <<In("d", 0)>>, << <<Dyn, 16>>, <<Dyn, 16>> >>, "f32", FALSE, FALSE)
          [] n = "mmt" -> Node(n, "MatMul", <<In("t", 1), In("y", 0)>>, << <<Dyn, 16>> >>, "f32", FALSE, FALSE)
          [] n = "t2"  -> Node(n, "TopK", <<In("x", 0)>>, << <<16, 16>>, <<16, 16>> >>, "f32", FALSE, FALSE)
          [] n = "mmt2" -> Node(n, "MatMul", <<In("t2", 1), In("y", 0)>>, << <<16, 16>> >>, "f32", FALSE, FALSE)
          [] n = "pi"  -> Node(n, "Parameter", <<>>, << <<100, 100>> >>, "i8", FALSE, FALSE)
          [] n = "q"   -> Node(n, "Parameter", <<>>, << <<1024, 1024>> >>, "f32", FALSE, FALSE)
          [] n = "a2"  -> Node(n, "Parameter", <<>>, << <<2, 3>> >>, "f32", FALSE, FALSE)
          [] n = "bv"  -> Node(n, "Parameter", <<>>, << <<50000, 3>> >>, "f32", FALSE, FALSE)
          [] n = "k"   -> Node(n, "Constant", <<>>, << <<2, 3>> >>, "f32", FALSE, FALSE)
          [] n = "mm6" -> Node(n, "MatMul", <<In("pi", 0), In("pi", 0)>>, << <<100, 100>> >>, "i8", TRUE, FALSE)
          [] n = "mm7" -> Node(n, "MatMul", <<In("q", 0), In("q", 0)>>, << <<1024, 1024>> >>, "f32", TRUE, TRUE)
          [] n = "mm8" -> Node(n, "MatMul", <<In("a2", 0), In("bv", 0)>>, << <<2, 50000>> >>, "f32", FALSE, TRUE)
          [] n = "mm9" -> Node(n, "MatMul", <<In("bv", 0), In("k", 0)>>, << <<50000, 2>> >>, "f32", FALSE, TRUE)
          [] n = "x4"  -> Node(n, "Parameter", <<>>, << <<1, 1, 16, 16>> >>, "f32", FALSE, FALSE)
          [] n = "mm10" -> Node(n, "MatMul", <<In("x4", 0), In("x4", 0)>>, << <<1, 1, 16, 16>> >>, "f32", FALSE, FALSE)
          [] n = "r6"  -> Node(n, "Parameter", <<>>, << <<1, 1, 1, 1, 16, 16>> >>, "f32", FALSE, FALSE)
          [] n = "r7"  -> Node(n, "Parameter", <<>>, << <<1, 1, 1, 1, 1, 16, 16>> >>, "f32", FALSE, FALSE)
          [] n = "fc"  -> Node(n, "FullyConnectedCompressed", <<In("x", 0), In("y", 0)>>, << <<16, 16>> >>, "f32", FALSE, FALSE)
          [] n = "v"   -> Node(n, "Parameter", <<>>, << <<100>> >>, "i8", FALSE, FALSE)
          [] n = "mm11" -> Node(n, "MatMul", <<In("v", 0), In("pi", 0)>>, << <<100>> >>, "i8", FALSE, TRUE)
          [] n = "mm13" -> Node(n, "MatMul", <<In("mm6", 0), In("pi", 0)>>, << <<100, 100>> >>, "i8", FALSE, FALSE)
          [] n = "dl"  -> Node(n, "Parameter", <<>>, << <<Dyn, 100, 100>> >>, "f32", FALSE, FALSE)
          [] n = "mm12" -> Node(n, "MatMul", <<In("dl", 0), In("dl", 0)>>, << <<Dyn, 100, 100>> >>, "f32", TRUE, FALSE)
          [] n = "t3"  -> Node(n, "TopK", <<In("pi", 0)>>, << <<100, 100>>, <<100, 100>> >>, "i8", FALSE, FALSE)
          [] n = "mm14" -> Node(n, "MatMul", <<In("t3", 1), In("pi", 0)>>, << <<100, 100>> >>, "i8", TRUE, FALSE)]

\* ov::NodeTypeInfo: name, version_id and parent of each type identity ("" = nullptr)
TypeNames == {"Parameter", "MatMul", "Split", "VariadicSplit", "Mystery", "MysteryBase",
              "MyCustom", "Op", "FusedMatMul", "GemmEx", "TopK", "Constant",
              "FullyConnectedCompressed"}

TypeInfo ==
    [t \in TypeNames |->
        CASE t = "Mystery" -> [name |-> t, version_id |-> "extension", parent |-> "MysteryBase"]
          [] t = "MysteryBase" -> [name |-> t, version_id |-> "extension", parent |-> ""]
          [] t = "MyCustom" -> [name |-> t, version_id |-> "extension", parent |-> "Op"]
          [] t = "Op" -> [name |-> t, version_id |-> "util", parent |-> ""]
          [] t = "FusedMatMul" -> [name |-> t, version_id |-> "extension", parent |-> "MatMul"]
          [] t = "GemmEx" -> [name |-> t, version_id |-> "gpu_opset", parent |-> "MatMul"]
          [] t = "FullyConnectedCompressed" -> [name |-> t, version_id |-> "gpu_opset", parent |-> "Op"]
          [] t = "Parameter" -> [name |-> t, version_id |-> "opset1", parent |-> "Op"]
          [] OTHER -> [name |-> t, version_id |-> "opset1", parent |-> "Op"]]

\* the operation lists build() is run on
OpLists ==
    { <<"x", "y", "mm1", "mm3">>,
      <<"p", "mm2">>,
      <<"d", "y", "mmd">>,
      <<"x", "y", "mm1", "d">>,
      <<"p", "s", "mm4">>,
      <<"x", "mm1", "y">>,
      <<"x", "u", "y">>,
      <<"x", "c">>,
      <<"x", "y", "mm5", "mm1">>,
      <<"x", "y", "t2", "mmt2", "fm", "g">>,
      <<"d", "y", "t", "mmt", "dl", "mm12", "pi", "t3", "mm14">>,
      <<"pi", "q", "a2", "bv", "k", "mm6", "mm7", "mm8", "mm9",
        "x4", "mm10", "r6", "v", "mm11", "mm13">>,
      <<"x", "r7">>,
      <<"x", "y", "fc">> }

\* the nodes is_op_supported is asked about
QueryNodes == {"mm1", "mmd", "u", "c", "mm5"}

-----------------------------------------------------------------------------
(* Helpers *)

EmptyMap == [k \in {} |-> ""]

Put(m, k, v) == [a \in (DOMAIN m) \cup {k} |-> IF a = k THEN v ELSE m[a]]

Has(m, k) == k \in DOMAIN m

NoTopology == [live |-> FALSE, prims |-> <<>>]

NoProgram == [built |-> FALSE, prims |-> <<>>]

NoError == <<>>

\* std::to_string of a small output index
to_string(i) ==
    CASE i = 0 -> "0" [] i = 1 -> "1" [] i = 2 -> "2" [] i = 3 -> "3" [] OTHER -> "9"

\* std::tolower over a type name
tolower(t) ==
    CASE t = "Parameter" -> "parameter"
      [] t = "MatMul" -> "matmul"
      [] t = "Split" -> "split"
      [] t = "VariadicSplit" -> "variadicsplit"
      [] t = "Mystery" -> "mystery"
      [] t = "MysteryBase" -> "mysterybase"
      [] t = "MyCustom" -> "mycustom"
      [] t = "FusedMatMul" -> "fusedmatmul"
      [] t = "GemmEx" -> "gemmex"
      [] t = "TopK" -> "topk"
      [] t = "Constant" -> "constant"
      [] t = "FullyConnectedCompressed" -> "fullyconnectedcompressed"
      [] OTHER -> "op"

layer_type_lower(n) == tolower(n.type)

layer_type_name_ID(n) == layer_type_lower(n) \o ":" \o n.name

ends_with(s, suffix) ==
    /\ Len(s) >= Len(suffix)
    /\ SubSeq(s, Len(s) - Len(suffix) + 1, Len(s)) = suffix

get_output_size(n) == Len(n.outShapes)

get_input_size(n) == Len(n.inputs)

get_input_partial_shape(n, i) == Graph[n.inputs[i].node].outShapes[n.inputs[i].index + 1]

shape_is_dynamic(shape) == \E i \in 1..Len(shape) : shape[i] = Dyn

is_dynamic(n) ==
    \/ \E i \in 1..get_output_size(n) : shape_is_dynamic(n.outShapes[i])
    \/ \E i \in 1..get_input_size(n) : shape_is_dynamic(get_input_partial_shape(n, i))

\* ov::is_type<T>(node): the node's type identity or one of its ancestors is T
RECURSIVE is_castable(_, _)
is_castable(t, target) ==
    IF t = "" THEN FALSE
    ELSE IF t = target THEN TRUE
    ELSE is_castable(TypeInfo[t].parent, target)

is_type(n, target) == is_castable(n.type, target)

-----------------------------------------------------------------------------
(* Primitives (cldnn::primitive) and input references (cldnn::input_info) *)

input_info(pid, idx) == [pid |-> pid, idx |-> idx]

\* a primitive as its constructor leaves it; param holds the type's own arguments
Prim(id, type, inputs, ta, tb, param) ==
    [id |-> id, type |-> type, inputs |-> inputs,
     origin_op_name |-> "", origin_op_type_name |-> "",
     transpose_a |-> ta, transpose_b |-> tb, param |-> param]

\* The builder state the lowering code reads and writes, as one record
Builder ==
    [primitive_ids |-> primitive_ids, m_topology |-> m_topology, perfMap |-> perfMap,
     profiling_ids |-> profiling_ids, allow_new_shape_infer |-> allow_new_shape_infer,
     queryMode |-> queryMode, err |-> NoError, dispatch |-> <<>>]

\* an exception leaves the current call: every later statement is skipped
Throw(b, e) == IF b.err = NoError THEN [b EXCEPT !.err = e] ELSE b

prepare_build(b) == [b EXCEPT !.m_topology = [live |-> TRUE, prims |-> <<>>]]

cleanup_build(b) == [b EXCEPT !.m_topology = NoTopology]

init_profile_info(pm, prim) ==
    Put(pm, prim.id,
        [first |-> prim.id, layerType |-> prim.origin_op_type_name, status |-> "EXECUTED",
         cpu_uSec |-> 0, realTime_uSec |-> 0, isCPU |-> FALSE,
         parentPrimitive |-> prim.origin_op_name])

RECURSIVE PutAll(_, _, _)
PutAll(m, keys, v) ==
    IF keys = <<>> THEN m ELSE PutAll(Put(m, Head(keys), v), Tail(keys), v)

\* lines 293-295: a primitive whose id is not the node identity is its own alias
SelfAlias_Never(ids, id, prim_id) == ids

SelfAlias(ids, id, prim_id) == IF id # prim_id THEN Put(ids, prim_id, prim_id) ELSE ids

\* as multi_output_case, never recognising the special case
multi_output_case_Never(prim_id, id) == FALSE

\* lines 288-291: the primitive id is the node identity followed by ".out0"
multi_output_case(prim_id, id) ==
    /\ ends_with(prim_id, ".out0")
    /\ Len(prim_id) > 5
    /\ SubSeq(prim_id, 1, Len(prim_id) - 5) = id

\* as should_profile, for every primitive type
should_profile_Always(prim) == TRUE

\* lines 285-286
should_profile(prim) == prim.type # "mutable_data" /\ prim.type # "data"

\* as RecordIdentity, keeping an entry the node already has
RecordIdentity_KeepFirst(ids, id, prim_id) == IF Has(ids, id) THEN ids ELSE Put(ids, id, prim_id)

\* line 290: primitive_ids[id] = prim_id
RecordIdentity(ids, id, prim_id) == Put(ids, id, prim_id)

add_primitive(b, n, prim, aliases) ==
    IF b.err # NoError THEN b
    ELSE IF ~b.m_topology.live
    THEN Throw(b, <<"InvalidState", "[GPU] Invalid ProgramBuilder builder state: topology is nullptr">>)
    ELSE
      LET prim_id == prim.id
          id == layer_type_name_ID(n)
          typeName == IF id # prim_id /\ ~multi_output_case(prim_id, id)
                      THEN prim.type ELSE n.type
          p1 == [prim EXCEPT !.origin_op_name = n.name, !.origin_op_type_name = typeName]
          ids3 == PutAll(SelfAlias(RecordIdentity(b.primitive_ids, id, prim_id), id, prim_id),
                         aliases, prim_id)
          prof == enable_profiling /\ should_profile(prim)
      IN [b EXCEPT
            !.primitive_ids = ids3,
            !.profiling_ids = IF prof THEN Append(@, prim_id) ELSE @,
            !.perfMap = IF prof THEN init_profile_info(@, p1) ELSE @,
            !.m_topology.prims = Append(@, p1)]

\* as requires_new_shape_infer, with rank 6 forcing the regime too
requires_new_shape_infer_Rank6(n) ==
    \/ is_dynamic(n)
    \/ is_type(n, "FullyConnectedCompressed")
    \/ \E i \in 1..get_output_size(n) : Len(n.outShapes[i]) >= 6
    \/ \E i \in 1..get_input_size(n) : Len(get_input_partial_shape(n, i)) >= 6

requires_new_shape_infer(n) ==
    \/ is_dynamic(n)
    \/ is_type(n, "FullyConnectedCompressed")
    \/ \E i \in 1..get_output_size(n) : Len(n.outShapes[i]) > 6
    \/ \E i \in 1..get_input_size(n) : Len(get_input_partial_shape(n, i)) > 6

\* as validate_inputs_count, accepting every count
validate_inputs_count_Accept(n, valid_inputs_count) == NoError

validate_inputs_count(n, valid_inputs_count) ==
    IF get_input_size(n) \in valid_inputs_count THEN NoError
    ELSE <<"InvalidInputsCount", get_input_size(n), n.name, n.type, TypeInfo[n.type].version_id>>

-----------------------------------------------------------------------------
(* ProgramBuilder::GetInputInfo *)

\* as is_legacy_multiple_outputs, looking at the regime only
is_legacy_multiple_outputs_RegimeOnly(b, prevOp) == ~b.allow_new_shape_infer

is_legacy_multiple_outputs(b, prevOp) ==
    \/ ~b.allow_new_shape_infer
    \/ is_type(prevOp, "Split")
    \/ is_type(prevOp, "VariadicSplit")

prevNameOf(b, n, i) ==
    LET prevOp == Graph[n.inputs[i].node]
        prevName == layer_type_name_ID(prevOp)
    IN IF get_output_size(prevOp) > 1 /\ is_legacy_multiple_outputs(b, prevOp)
       THEN prevName \o ".out" \o to_string(n.inputs[i].index)
       ELSE prevName

\* as GetInputInfo, but an absent identity reads as a default-constructed id
GetInputInfo_Default(b, n) ==
    [err |-> NoError,
     infos |-> [i \in 1..get_input_size(n) |->
                  input_info(IF b.queryMode THEN prevNameOf(b, n, i)
                             ELSE IF Has(b.primitive_ids, prevNameOf(b, n, i))
                             THEN b.primitive_ids[prevNameOf(b, n, i)]
                             ELSE "",
                             IF is_legacy_multiple_outputs(b, Graph[n.inputs[i].node])
                             THEN 0 ELSE n.inputs[i].index)]]

\* as GetInputInfo, looking the identity up in query mode too
GetInputInfo_AlwaysLookup(b, n) ==
    LET missing == { i \in 1..get_input_size(n) : ~Has(b.primitive_ids, prevNameOf(b, n, i)) }
        outIdx(i) == IF is_legacy_multiple_outputs(b, Graph[n.inputs[i].node])
                     THEN 0 ELSE n.inputs[i].index
    IN IF missing # {}
       THEN LET first == CHOOSE i \in missing : \A j \in missing : i <= j
            IN [err |-> <<"InputNotFound", prevNameOf(b, n, first)>>, infos |-> <<>>]
       ELSE [err |-> NoError,
             infos |-> [i \in 1..get_input_size(n) |->
                          input_info(b.primitive_ids[prevNameOf(b, n, i)], outIdx(i))]]

\* [err, infos]: err names the first input whose identity is not in primitive_ids
GetInputInfo(b, n) ==
    LET missing == { i \in 1..get_input_size(n) : ~Has(b.primitive_ids, prevNameOf(b, n, i)) }
        outIdx(i) == IF is_legacy_multiple_outputs(b, Graph[n.inputs[i].node])
                     THEN 0 ELSE n.inputs[i].index
    IN IF ~b.queryMode /\ missing # {}
       THEN LET first == CHOOSE i \in missing : \A j \in missing : i <= j
            IN [err |-> <<"InputNotFound", prevNameOf(b, n, first)>>, infos |-> <<>>]
       ELSE [err |-> NoError,
             infos |-> [i \in 1..get_input_size(n) |->
                          IF ~b.queryMode
                          THEN input_info(b.primitive_ids[prevNameOf(b, n, i)], outIdx(i))
                          ELSE input_info(prevNameOf(b, n, i), outIdx(i))]]

-----------------------------------------------------------------------------
(* ops/matmul.cpp: CreateMatMulOp *)

RECURSIVE count(_)
\* tensor_from_dims(shape).count(): the number of elements
count(shape) == IF shape = <<>> THEN 1 ELSE Head(shape) * count(Tail(shape))

dim_aligned16(dim) == dim # Dyn /\ dim % 16 = 0

dim_large(dim) == dim # Dyn /\ dim >= 64

\* std::all_of over the last two dimensions (rbegin() .. rbegin() + 2)
last2_aligned16(shape) == \A i \in (Len(shape) - 1)..Len(shape) : dim_aligned16(shape[i])

last2_large(shape) == \A i \in (Len(shape) - 1)..Len(shape) : dim_large(shape[i])

\* as inputsAligned, never finding the inputs aligned
inputsAligned_Never(shapes) == FALSE

\* lines 54-57
inputsAligned(shapes) == last2_aligned16(shapes[1]) /\ last2_aligned16(shapes[2])

\* as inputsLarge, never finding the inputs large
inputsLarge_Never(shapes) == FALSE

\* lines 62-65: in0_large && in1_large
inputsLarge(shapes) == last2_large(shapes[1]) /\ last2_large(shapes[2])

\* lines 67-70: both element counts are taken from shapes[0]
needs_to_transpose_inputs(shapes, type, immad) ==
    LET is_u8_i8 == type = "i8" \/ type = "u8"
        in0_very_large == count(shapes[1]) > 100000
        in1_very_large == count(shapes[1]) > 100000
    IN (in0_very_large \/ in1_very_large) /\ ~is_u8_i8 /\ ~immad

\* as canTransposeInputs, without the early return for dynamic shapes
canTransposeInputs_NoDynamicGuard(shapes, transA, transB, type, immad) ==
    IF ~transA /\ ~transB THEN FALSE
    ELSE IF Len(shapes[1]) < 2 \/ Len(shapes[2]) < 2 THEN FALSE
    ELSE IF inputsAligned(shapes) THEN FALSE
    ELSE inputsLarge(shapes) \/ needs_to_transpose_inputs(shapes, type, immad)

canTransposeInputs(shapes, transA, transB, type, immad) ==
    IF ~transA /\ ~transB THEN FALSE
    ELSE IF \/ shape_is_dynamic(shapes[1]) \/ shape_is_dynamic(shapes[2])
            \/ Len(shapes[1]) < 2 \/ Len(shapes[2]) < 2 THEN FALSE
    ELSE IF inputsAligned(shapes) THEN FALSE
    ELSE inputsLarge(shapes) \/ needs_to_transpose_inputs(shapes, type, immad)

\* std::iota then std::swap of the last two entries
transposeOrder(shape) ==
    [i \in 1..Len(shape) |->
        IF i = Len(shape) THEN Len(shape) - 2
        ELSE IF i = Len(shape) - 1 THEN Len(shape) - 1
        ELSE i - 1]

permuteName(n, suffix) == n.name \o suffix

\* the lambda transposeInput: adds the permutation, the caller rebinds to input_info(permuteName)
transposeInput(b, n, shape, suffix, primitiveId) ==
    add_primitive(b, n,
                  Prim(permuteName(n, suffix), "permute", <<input_info(primitiveId, 0)>>,
                       FALSE, FALSE, transposeOrder(shape)),
                  <<>>)

\* as MatMulOutReshape, without the test of the output rank
MatMulOutReshape_AnyRank(b, n) ==
    IF b.allow_new_shape_infer THEN b
    ELSE add_primitive(b, n,
                       Prim(layer_type_name_ID(n) \o "_cldnn_out_reshape", "reshape",
                            <<input_info(layer_type_name_ID(n), 0)>>, FALSE, FALSE,
                            n.outShapes[1]),
                       <<>>)

\* as MatMulOutReshape, with the reshape reading the node's friendly name
MatMulOutReshape_FriendlyName(b, n) ==
    IF b.allow_new_shape_infer THEN b
    ELSE IF shape_is_dynamic(n.outShapes[1])
    THEN Throw(b, <<"DynamicShape", "get_output_shape was called on a descriptor::Tensor with dynamic shape">>)
    ELSE IF Len(n.outShapes[1]) < 4
    THEN add_primitive(b, n,
                       Prim(layer_type_name_ID(n) \o "_cldnn_out_reshape", "reshape",
                            <<input_info(n.name, 0)>>, FALSE, FALSE, n.outShapes[1]),
                       <<>>)
    ELSE b

\* lines 111-123: the legacy regime reshapes an output of rank below 4
MatMulOutReshape(b, n) ==
    IF b.allow_new_shape_infer THEN b
    ELSE IF shape_is_dynamic(n.outShapes[1])
    THEN Throw(b, <<"DynamicShape", "get_output_shape was called on a descriptor::Tensor with dynamic shape">>)
    ELSE IF Len(n.outShapes[1]) < 4
    THEN add_primitive(b, n,
                       Prim(layer_type_name_ID(n) \o "_cldnn_out_reshape", "reshape",
                            <<input_info(layer_type_name_ID(n), 0)>>, FALSE, FALSE,
                            n.outShapes[1]),
                       <<>>)
    ELSE b

\* as TransposeIf, not looking at the flag
TransposeIf_Always(b, n, flag, i, suffix, primitiveId) ==
    transposeInput(b, n, get_input_partial_shape(n, i), suffix, primitiveId)

\* lines 90-93 and 95-98: one operand's fixup, when its flag is set
TransposeIf(b, n, flag, i, suffix, primitiveId) ==
    IF flag THEN transposeInput(b, n, get_input_partial_shape(n, i), suffix, primitiveId)
    ELSE b

\* lines 89-111: the transpose fixups, then the gemm primitive
MatMulGemm(b, n, inputs, can) ==
    add_primitive(
        TransposeIf(TransposeIf(b, n, can /\ n.transpose_a, 1, "/transpose_a", inputs[1].pid),
                    n, can /\ n.transpose_b, 2, "/transpose_b", inputs[2].pid),
        n,
        Prim(layer_type_name_ID(n), "gemm",
             << IF can /\ n.transpose_a
                THEN input_info(permuteName(n, "/transpose_a"), 0) ELSE inputs[1],
                IF can /\ n.transpose_b
                THEN input_info(permuteName(n, "/transpose_b"), 0) ELSE inputs[2] >>,
             IF can /\ n.transpose_a THEN FALSE ELSE n.transpose_a,
             IF can /\ n.transpose_b THEN FALSE ELSE n.transpose_b,
             << Len(get_input_partial_shape(n, 1)), Len(get_input_partial_shape(n, 2)) >>),
        <<>>)

\* lines 25-123, once the inputs' count is valid; r is GetInputInfo's outcome
MatMulLower(b, n, r) ==
    IF r.err # NoError THEN Throw(b, r.err)
    ELSE MatMulOutReshape(
             MatMulGemm(b, n, r.infos,
                        canTransposeInputs(
                            <<get_input_partial_shape(n, 1), get_input_partial_shape(n, 2)>>,
                            n.transpose_a, n.transpose_b,
                            Graph[n.inputs[1].node].etype, supports_immad)),
             n)

CreateMatMulOp(b, n) ==
    IF validate_inputs_count(n, {2}) # NoError
    THEN Throw(b, validate_inputs_count(n, {2}))
    ELSE MatMulLower(b, n, GetInputInfo(b, n))

-----------------------------------------------------------------------------
(* Builders whose sources are outside this file set *)

CreateParameterOp(b, n) ==
    add_primitive(b, n, Prim(layer_type_name_ID(n), "input_layout", <<>>, FALSE, FALSE, n.outShapes[1]), <<>>)

RECURSIVE AddCrops(_, _, _, _)
AddCrops(b, n, inputs, i) ==
    IF i >= get_output_size(n) THEN b
    ELSE AddCrops(add_primitive(b, n,
                                Prim(layer_type_name_ID(n) \o ".out" \o to_string(i), "crop",
                                     inputs, FALSE, FALSE, n.outShapes[i + 1]),
                                <<>>),
                  n, inputs, i + 1)

SplitLower(b, n, r) ==
    IF r.err # NoError THEN Throw(b, r.err) ELSE AddCrops(b, n, r.infos, 0)

CreateSplitOp(b, n) == SplitLower(b, n, GetInputInfo(b, n))

CustomLower(b, n, r) ==
    IF r.err # NoError THEN Throw(b, r.err)
    ELSE add_primitive(b, n, Prim(layer_type_name_ID(n), "custom_gpu_primitive", r.infos,
                                  FALSE, FALSE, n.outShapes[1]), <<>>)

CreateCustomOp(b, n) == CustomLower(b, n, GetInputInfo(b, n))

\* a constant becomes a data primitive named after the node
CreateConstantOp(b, n) ==
    add_primitive(b, n, Prim(layer_type_name_ID(n), "data", <<>>, FALSE, FALSE, n.outShapes[1]), <<>>)

\* the legacy regime: output 0 is the arg_max_min primitive, output 1 a mutable_data
\* that primitive writes
TopKLegacy(b, n, inputs) ==
    add_primitive(
        add_primitive(
            add_primitive(b, n,
                          Prim(layer_type_name_ID(n) \o "_md_write", "mutable_data", <<>>,
                               FALSE, FALSE, n.outShapes[2]),
                          <<>>),
            n,
            Prim(layer_type_name_ID(n) \o ".out0", "arg_max_min",
                 Append(inputs, input_info(layer_type_name_ID(n) \o "_md_write", 0)),
                 FALSE, FALSE, n.outShapes[1]),
            <<>>),
        n,
        Prim(layer_type_name_ID(n) \o ".out1", "mutable_data",
             <<input_info(layer_type_name_ID(n) \o ".out0", 0)>>, FALSE, FALSE, n.outShapes[2]),
        <<>>)

\* a two-output operation: one index-addressed primitive in the new regime, one
\* named primitive per output in the legacy regime
TopKLower(b, n, r) ==
    IF r.err # NoError THEN Throw(b, r.err)
    ELSE IF b.allow_new_shape_infer
    THEN add_primitive(b, n, Prim(layer_type_name_ID(n), "arg_max_min", r.infos,
                                  FALSE, FALSE, n.outShapes), <<>>)
    ELSE TopKLegacy(b, n, r.infos)

CreateTopKOp(b, n) == TopKLower(b, n, GetInputInfo(b, n))

FullyConnectedLower(b, n, r) ==
    IF r.err # NoError THEN Throw(b, r.err)
    ELSE add_primitive(b, n, Prim(layer_type_name_ID(n), "fully_connected", r.infos,
                                  FALSE, FALSE, n.outShapes[1]), <<>>)

CreateFullyConnectedOp(b, n) == FullyConnectedLower(b, n, GetInputInfo(b, n))

-----------------------------------------------------------------------------
(* ProgramBuilder::CreateSingleLayerPrimitive *)

\* factory_it->second(*this, op)
InvokeFactory(f, b, n) ==
    CASE f = "CreateMatMulOp" -> CreateMatMulOp(b, n)
      [] f = "CreateSplitOp" -> CreateSplitOp(b, n)
      [] f = "CreateTopKOp" -> CreateTopKOp(b, n)
      [] f = "CreateConstantOp" -> CreateConstantOp(b, n)
      [] f = "CreateFullyConnectedOp" -> CreateFullyConnectedOp(b, n)
      [] OTHER -> CreateParameterOp(b, n)

Called(b, kind, t) == [b EXCEPT !.dispatch = Append(@, <<kind, t>>)]

RECURSIVE TypeChainWalk_NoThrow(_, _, _)
\* as TypeChainWalk, without the is_created check after the loop
TypeChainWalk_NoThrow(b, n, t) ==
    IF t = "" THEN b
    ELSE IF n.type \in m_custom_layers
    THEN CreateCustomOp(Called(b, "custom", n.type), n)
    ELSE IF t \in DOMAIN factories_map
    THEN InvokeFactory(factories_map[t], Called(b, "factory", t), n)
    ELSE TypeChainWalk_NoThrow(b, n, TypeInfo[t].parent)

RECURSIVE TypeChainWalk_RegistryFirst(_, _, _)
\* as TypeChainWalk, with the registry consulted before the overlay table
TypeChainWalk_RegistryFirst(b, n, t) ==
    IF t = ""
    THEN Throw(b, <<"NotSupported", n.name, n.type, TypeInfo[n.type].version_id>>)
    ELSE IF t \in DOMAIN factories_map
    THEN InvokeFactory(factories_map[t], Called(b, "factory", t), n)
    ELSE IF n.type \in m_custom_layers
    THEN CreateCustomOp(Called(b, "custom", n.type), n)
    ELSE TypeChainWalk_RegistryFirst(b, n, TypeInfo[t].parent)

RECURSIVE TypeChainWalk_NoBreak(_, _, _)
\* as TypeChainWalk, without the break after a registered builder ran
TypeChainWalk_NoBreak(b, n, t) ==
    IF t = "" THEN b
    ELSE IF n.type \in m_custom_layers
    THEN CreateCustomOp(Called(b, "custom", n.type), n)
    ELSE IF t \in DOMAIN factories_map
    THEN TypeChainWalk_NoBreak(InvokeFactory(factories_map[t], Called(b, "factory", t), n),
                               n, TypeInfo[t].parent)
    ELSE TypeChainWalk_NoBreak(b, n, TypeInfo[t].parent)

RECURSIVE TypeChainWalk_OverlayByChainType(_, _, _)
\* as TypeChainWalk, with the overlay table looked up by the chain step's type name
TypeChainWalk_OverlayByChainType(b, n, t) ==
    IF t = ""
    THEN Throw(b, <<"NotSupported", n.name, n.type, TypeInfo[n.type].version_id>>)
    ELSE IF t \in m_custom_layers
    THEN CreateCustomOp(Called(b, "custom", t), n)
    ELSE IF t \in DOMAIN factories_map
    THEN InvokeFactory(factories_map[t], Called(b, "factory", t), n)
    ELSE TypeChainWalk_OverlayByChainType(b, n, TypeInfo[t].parent)

RECURSIVE TypeChainWalk(_, _, _)
\* the while loop: t is op_type_info ("" = nullptr)
TypeChainWalk(b, n, t) ==
    IF t = ""
    THEN Throw(b, <<"NotSupported", n.name, n.type, TypeInfo[n.type].version_id>>)
    ELSE IF n.type \in m_custom_layers
    THEN CreateCustomOp(Called(b, "custom", n.type), n)
    ELSE IF t \in DOMAIN factories_map
    THEN InvokeFactory(factories_map[t], Called(b, "factory", t), n)
    ELSE TypeChainWalk(b, n, TypeInfo[t].parent)

CreateSingleLayerPrimitive(b, n) ==
    IF b.err # NoError THEN b
    ELSE TypeChainWalk([b EXCEPT !.dispatch = <<>>], n, n.type)

-----------------------------------------------------------------------------
(* ProgramBuilder::is_op_supported *)

EnableQueryMode(b) == [b EXCEPT !.queryMode = TRUE]

DisableQueryMode(b) == [b EXCEPT !.queryMode = FALSE]

\* [b, result]: the builder after the call and the boolean returned
\* lines 188-196: b is the builder as CreateSingleLayerPrimitive left it
QueryOutcome(b) ==
    IF b.err = NoError
    THEN [b |-> DisableQueryMode(cleanup_build(b)), result |-> TRUE]
    ELSE [b |-> [cleanup_build(b) EXCEPT !.err = NoError], result |-> FALSE]

is_op_supported(b, n) ==
    QueryOutcome(
        CreateSingleLayerPrimitive(
            [prepare_build(EnableQueryMode(b))
                EXCEPT !.allow_new_shape_infer = requires_new_shape_infer(n)],
            n))

-----------------------------------------------------------------------------
(* ProgramBuilder::build *)

\* as RegimeScan, looking at the first node of the list only
RegimeScan_FirstOnly(list, allow, inner, cfg) ==
    LET scanned == allow \/ (list # <<>> /\ requires_new_shape_infer(Graph[list[1]]))
    IN IF inner THEN cfg \/ scanned ELSE scanned

\* lines 133-142: the regime scan and the inner-program combination
RegimeScan(list, allow, inner, cfg) ==
    LET scanned == allow \/ \E i \in 1..Len(list) : requires_new_shape_infer(Graph[list[i]])
    IN IF inner THEN cfg \/ scanned ELSE scanned

\* the texts the backend compiler fails with
BackendErrors == {"out of resources"}

Registry ==
    [t \in {"Parameter", "MatMul", "GemmEx", "Split", "VariadicSplit", "TopK", "Constant",
            "FullyConnectedCompressed"} |->
        CASE t = "MatMul" -> "CreateMatMulOp"
          [] t = "GemmEx" -> "CreateMatMulOp"
          [] t = "Split" -> "CreateSplitOp"
          [] t = "VariadicSplit" -> "CreateSplitOp"
          [] t = "TopK" -> "CreateTopKOp"
          [] t = "Constant" -> "CreateConstantOp"
          [] t = "FullyConnectedCompressed" -> "CreateFullyConnectedOp"
          [] OTHER -> "CreateParameterOp"]

\* the initialization units (one per builder source file) and the type identities
\* each registers, in order
Units == {"matmul.cpp", "parameter.cpp", "split.cpp", "topk.cpp", "constant.cpp",
          "fully_connected.cpp"}

Registrations(u) ==
    CASE u = "matmul.cpp" -> <<"MatMul", "GemmEx">>
      [] u = "parameter.cpp" -> <<"Parameter">>
      [] u = "split.cpp" -> <<"Split", "VariadicSplit">>
      [] u = "topk.cpp" -> <<"TopK">>
      [] u = "fully_connected.cpp" -> <<"FullyConnectedCompressed">>
      [] OTHER -> <<"Constant">>

Snapshot ==
    [primitive_ids |-> primitive_ids, perfMap |-> perfMap, profiling_ids |-> profiling_ids,
     allow_new_shape_infer |-> allow_new_shape_infer, queryMode |-> queryMode,
     m_topology |-> m_topology]

NoQuery == [node |-> "", result |-> FALSE, before |-> <<>>,
            prevStep |-> "", prevNode |-> "", prevResult |-> FALSE]

BuilderInit ==
    /\ primitive_ids = EmptyMap
    /\ m_topology = NoTopology
    /\ perfMap = EmptyMap
    /\ profiling_ids = <<>>
    /\ allow_new_shape_infer = FALSE
    /\ queryMode = FALSE
    /\ m_program = NoProgram
    /\ cfg_allow_new_shape_infer \in BOOLEAN
    /\ enable_profiling \in BOOLEAN
    /\ supports_immad \in BOOLEAN
    /\ m_custom_layers \in {{}, {"MyCustom", "MatMul", "MysteryBase"}}
    /\ pc = "idle"
    /\ ops = <<>>
    /\ create_topology_only = FALSE
    /\ is_inner_program = FALSE
    /\ opIdx = 1
    /\ err = NoError
    /\ dispatch = <<>>
    /\ lowered = <<>>
    /\ pidsAtBuild = EmptyMap
    /\ nQueries = 0
    /\ lastQuery = NoQuery
    /\ step = "init"
    /\ compilerCalls = 0

-----------------------------------------------------------------------------
(* RemoteTensorImpl (remote_tensor.cpp) *)

TensorState ==
    << tensor_pc, m_element_type, m_shape, m_layout, m_mem_type, m_mem, m_hash, m_strides,
       m_memory_object, m_properties, memory_cache, tensor_err, lastCall >>

\* the tensor object and the cache of its context, as one record
Tensor ==
    [m_element_type |-> m_element_type, m_shape |-> m_shape, m_layout |-> m_layout,
     m_mem_type |-> m_mem_type, m_mem |-> m_mem, m_hash |-> m_hash, m_strides |-> m_strides,
     m_memory_object |-> m_memory_object, m_properties |-> m_properties,
     memory_cache |-> memory_cache, err |-> NoError]

TensorTypes ==
    { "BT_EMPTY", "BT_BUF_INTERNAL", "BT_USM_HOST_INTERNAL", "BT_USM_DEVICE_INTERNAL",
      "BT_BUF_SHARED", "BT_USM_SHARED", "BT_SURF_SHARED", "BT_IMG_SHARED",
      "BT_DX_BUF_SHARED" }

ElementTypes == {"f32", "u8", "u4"}

\* the shapes a tensor is constructed with or set to
TensorShapes == { <<>>, <<2>>, <<2, 3>>, <<4, 3>>, <<1, 2, 3>> }

\* the handles a caller shares
SharedHandles == {"h1"}

\* ov::element::Type::bitwidth
bitwidth(et) == CASE et = "f32" -> 32 [] et = "u8" -> 8 [] OTHER -> 4

\* ov::element::Type::size: bytes of one element
element_size(et) == CASE et = "f32" -> 4 [] OTHER -> 1

RECURSIVE shape_size(_)
\* ov::shape_size: the product of the dimensions, 1 for a scalar
shape_size(shape) == IF shape = <<>> THEN 1 ELSE Head(shape) * shape_size(Tail(shape))

NoLayout == [data_type |-> "", format |-> "", shape |-> <<>>]

make_layout(et, shape) == [data_type |-> et, format |-> "default", shape |-> shape]

set_partial_shape(layout, shape) == [layout EXCEPT !.shape = shape]

\* m_memory_object == nullptr
NoMemory == [live |-> FALSE, alloc |-> "", layout |-> NoLayout, handle |-> ""]

\* a memory object the engine made for a layout
engine_memory(alloc, layout, handle) ==
    [live |-> TRUE, alloc |-> alloc, layout |-> layout, handle |-> handle]

\* cldnn::memory::count: the elements of the layout the object was made for
memory_count(mem) == shape_size(mem.layout.shape)

\* the constructor's hash_combine chain over handle, rank, element type and extents
tensor_hash(mem, et, shape) == <<mem, Len(shape), et>> \o shape

\* lines 64-68, for a shape that is not empty
strides_of(et, shape) ==
    [i \in 1..Len(shape) |-> element_size(et) * shape_size(SubSeq(shape, i + 1, Len(shape)))]

update_strides(t) ==
    IF bitwidth(t.m_element_type) < 8 THEN t
    ELSE IF t.m_shape = <<>> THEN [t EXCEPT !.m_strides = <<>>]
    ELSE [t EXCEPT !.m_strides = strides_of(t.m_element_type, t.m_shape)]

is_shared(t) ==
    t.m_mem_type \in { "BT_BUF_SHARED", "BT_USM_SHARED", "BT_IMG_SHARED", "BT_SURF_SHARED",
                       "BT_DX_BUF_SHARED" }

supports_caching(t) == is_shared(t)

is_allocated(t) == t.m_memory_object.live

deallocate(t) == [t EXCEPT !.m_memory_object = NoMemory]

\* context->add_to_cache, when caching is enabled
add_to_cache(t) ==
    IF supports_caching(t)
    THEN [t EXCEPT !.memory_cache = Put(@, t.m_hash, t.m_memory_object)]
    ELSE t

\* the switch at lines 117-162, in a build without _WIN32
allocate_switch(t) ==
    CASE t.m_mem_type = "BT_BUF_INTERNAL" ->
           [t EXCEPT !.m_memory_object = engine_memory("cl_mem", t.m_layout, "")]
      [] t.m_mem_type = "BT_USM_HOST_INTERNAL" ->
           [t EXCEPT !.m_memory_object = engine_memory("usm_host", t.m_layout, "")]
      [] t.m_mem_type = "BT_USM_DEVICE_INTERNAL" ->
           [t EXCEPT !.m_memory_object = engine_memory("usm_device", t.m_layout, "")]
      [] t.m_mem_type = "BT_BUF_SHARED" ->
           [t EXCEPT !.m_memory_object = engine_memory("shared_buffer", t.m_layout, t.m_mem)]
      [] t.m_mem_type = "BT_USM_SHARED" ->
           [t EXCEPT !.m_memory_object = engine_memory("shared_usm", t.m_layout, t.m_mem)]
      [] t.m_mem_type = "BT_SURF_SHARED" ->
           [t EXCEPT !.m_layout.format = "nv12",
                     !.m_memory_object =
                         engine_memory("shared_surface", [t.m_layout EXCEPT !.format = "nv12"],
                                       t.m_mem)]
      [] t.m_mem_type = "BT_IMG_SHARED" ->
           [t EXCEPT !.m_layout.format = "nv12",
                     !.m_memory_object =
                         engine_memory("shared_image", [t.m_layout EXCEPT !.format = "nv12"],
                                       t.m_mem)]
      [] OTHER -> [t EXCEPT !.m_memory_object = NoMemory]

allocate(t) ==
    IF /\ supports_caching(t)
       /\ Has(t.memory_cache, t.m_hash)
       /\ t.memory_cache[t.m_hash].live
    THEN [t EXCEPT !.m_memory_object = t.memory_cache[t.m_hash]]
    ELSE add_to_cache(allocate_switch(t))

\* the value of ov::intel_gpu::shared_mem_type in m_properties
SharedMemTypeOf(mem_type) ==
    CASE mem_type \in {"BT_BUF_INTERNAL", "BT_BUF_SHARED"} -> "OCL_BUFFER"
      [] mem_type = "BT_USM_SHARED" -> "USM_USER_BUFFER"
      [] mem_type = "BT_USM_HOST_INTERNAL" -> "USM_HOST_BUFFER"
      [] mem_type = "BT_USM_DEVICE_INTERNAL" -> "USM_DEVICE_BUFFER"
      [] mem_type = "BT_IMG_SHARED" -> "OCL_IMAGE2D"
      [] mem_type = "BT_SURF_SHARED" -> "VA_SURFACE"
      [] OTHER -> ""

init_properties(t) ==
    IF ~is_allocated(t)
    THEN Throw(t, <<"Assert", "[GPU] Can't initialize RemoteTensorImpl parameters as memory was not allocated">>)
    ELSE IF SharedMemTypeOf(t.m_mem_type) = ""
    THEN Throw(t, <<"Unsupported", "[GPU] Unsupported shared object type ", t.m_mem_type>>)
    ELSE [t EXCEPT !.m_properties = [shared_mem_type |-> SharedMemTypeOf(t.m_mem_type),
                                     mem_handle |-> t.m_memory_object.handle]]

\* the member initializers and the hash of lines 23-40
TensorMembers(cache, shape, et, mem_type, mem) ==
    [m_element_type |-> et, m_shape |-> shape, m_layout |-> make_layout(et, shape),
     m_mem_type |-> mem_type, m_mem |-> mem,
     m_hash |-> IF mem_type \in { "BT_BUF_SHARED", "BT_USM_SHARED", "BT_IMG_SHARED",
                                  "BT_SURF_SHARED", "BT_DX_BUF_SHARED" }
                THEN tensor_hash(mem, et, shape) ELSE <<>>,
     m_strides |-> <<>>, m_memory_object |-> NoMemory, m_properties |-> <<>>,
     memory_cache |-> cache, err |-> NoError]

\* RemoteTensorImpl::RemoteTensorImpl
RemoteTensorImpl(cache, shape, et, mem_type, mem) ==
    init_properties(allocate(update_strides(TensorMembers(cache, shape, et, mem_type, mem))))

\* as set_shape_grow, keeping the memory object of a tensor that is not shared
set_shape_grow_KeepMemory(t, shape) ==
    IF shape_size(shape) > memory_count(t.m_memory_object) /\ is_shared(t)
    THEN Throw(t, <<"Assert", "Cannot call setShape for Tensor created on top of preallocated memory if shape was increased.">>)
    ELSE t

\* the part of set_shape after the two assignments: t is the tensor with the new
\* layout and shape
set_shape_grow(t, shape) ==
    IF shape_size(shape) > memory_count(t.m_memory_object)
    THEN IF is_shared(t)
         THEN Throw(t, <<"Assert", "Cannot call setShape for Tensor created on top of preallocated memory if shape was increased.">>)
         ELSE allocate(deallocate(t))
    ELSE t

set_shape(t, shape) ==
    set_shape_grow([t EXCEPT !.m_layout = set_partial_shape(@, shape), !.m_shape = shape],
                   shape)

NoCall == [op |-> "", shape |-> <<>>, before |-> <<>>]

\* no tensor has been constructed
TensorNone ==
    /\ tensor_pc = "none"
    /\ m_element_type = ""
    /\ m_shape = <<>>
    /\ m_layout = NoLayout
    /\ m_mem_type = ""
    /\ m_mem = ""
    /\ m_hash = <<>>
    /\ m_strides = <<>>
    /\ m_memory_object = NoMemory
    /\ m_properties = <<>>
    /\ tensor_err = NoError
    /\ lastCall = NoCall

\* a builder is constructed after static initialization has filled the registry
Init ==
    /\ BuilderInit
    /\ factories_map = Registry
    /\ m_mutex = ""
    /\ reg = [u \in Units |-> [pc |-> "idle", idx |-> Len(Registrations(u)) + 1, local |-> EmptyMap]]
    /\ TensorNone
    /\ memory_cache = EmptyMap

Env ==
    << enable_profiling, supports_immad, m_custom_layers, factories_map, m_mutex, reg,
       TensorState >>

\* build() entered: lines 133-148
BuildStart ==
    /\ pc = "idle"
    /\ \E list \in OpLists, topoOnly \in BOOLEAN, inner \in BOOLEAN :
         \E flag \in {RegimeScan(list, allow_new_shape_infer, inner, cfg_allow_new_shape_infer)} :
            /\ ops' = list
            /\ create_topology_only' = topoOnly
            /\ is_inner_program' = inner
            /\ allow_new_shape_infer' = flag
            /\ cfg_allow_new_shape_infer' = flag
    /\ m_topology' = prepare_build(Builder).m_topology
    /\ pc' = "lowering"
    /\ opIdx' = 1
    /\ lowered' = <<>>
    /\ pidsAtBuild' = primitive_ids
    /\ step' = "build"
    /\ UNCHANGED << primitive_ids, perfMap, profiling_ids, queryMode, m_program, err,
                    dispatch, nQueries, lastQuery, compilerCalls, Env >>

\* an exception leaves the loop and build(); otherwise the loop goes on
AfterLower_Swallow(e) == "lowering"

AfterLower(e) == IF e = NoError THEN "lowering" ELSE "failed"

\* one iteration of the loop at lines 151-153
LowerNode ==
    /\ pc = "lowering"
    /\ opIdx <= Len(ops)
    /\ \E b \in {CreateSingleLayerPrimitive(Builder, Graph[ops[opIdx]])} :
          /\ primitive_ids' = b.primitive_ids
          /\ m_topology' = b.m_topology
          /\ perfMap' = b.perfMap
          /\ profiling_ids' = b.profiling_ids
          /\ dispatch' = b.dispatch
          /\ err' = b.err
          /\ pc' = AfterLower(b.err)
          /\ opIdx' = IF AfterLower(b.err) = "lowering" THEN opIdx + 1 ELSE opIdx
          /\ lowered' = IF AfterLower(b.err) = "lowering"
                        THEN Append(lowered, [node |-> ops[opIdx], allow |-> b.allow_new_shape_infer])
                        ELSE lowered
    /\ step' = "lower"
    /\ UNCHANGED << allow_new_shape_infer, queryMode, m_program, cfg_allow_new_shape_infer,
                    ops, create_topology_only, is_inner_program, pidsAtBuild, nQueries,
                    lastQuery, compilerCalls, Env >>

\* as FinalizeTopologyOnly, but the topology is released as on the compile path
FinalizeTopologyOnly_Release ==
    /\ pc = "lowering"
    /\ opIdx > Len(ops)
    /\ create_topology_only
    /\ m_program' = NoProgram
    /\ m_topology' = cleanup_build(Builder).m_topology
    /\ pc' = "done"
    /\ step' = "finalize"
    /\ UNCHANGED << primitive_ids, perfMap, profiling_ids, allow_new_shape_infer,
                    queryMode, cfg_allow_new_shape_infer, ops, create_topology_only,
                    is_inner_program, opIdx, err, dispatch, lowered, pidsAtBuild, nQueries,
                    lastQuery, compilerCalls, Env >>

\* lines 155-156: only a topology was asked for
FinalizeTopologyOnly ==
    /\ pc = "lowering"
    /\ opIdx > Len(ops)
    /\ create_topology_only
    /\ m_program' = NoProgram
    /\ pc' = "done"
    /\ step' = "finalize"
    /\ UNCHANGED << primitive_ids, m_topology, perfMap, profiling_ids, allow_new_shape_infer,
                    queryMode, cfg_allow_new_shape_infer, ops, create_topology_only,
                    is_inner_program, opIdx, err, dispatch, lowered, pidsAtBuild, nQueries,
                    lastQuery, compilerCalls, Env >>

\* lines 157-168: the backend compiler returns a program or throws
FinalizeCompile ==
    /\ pc = "lowering"
    /\ opIdx > Len(ops)
    /\ ~create_topology_only
    /\ compilerCalls' = compilerCalls + 1
    /\ \/ /\ m_program' = [built |-> TRUE, prims |-> m_topology.prims]
          /\ m_topology' = cleanup_build(Builder).m_topology
          /\ pc' = "done"
          /\ err' = err
       \/ \E what \in BackendErrors :
          /\ err' = <<"BuildFailed", "[GPU] ProgramBuilder build failed!", what>>
          /\ pc' = "failed"
          /\ UNCHANGED << m_program, m_topology >>
    /\ step' = "finalize"
    /\ UNCHANGED << primitive_ids, perfMap, profiling_ids, allow_new_shape_infer,
                    queryMode, cfg_allow_new_shape_infer, ops, create_topology_only,
                    is_inner_program, opIdx, dispatch, lowered, pidsAtBuild, nQueries,
                    lastQuery, Env >>

\* a whole is_op_supported call, made while no build() is running
IsOpSupported ==
    /\ pc \in {"idle", "done", "failed"}
    /\ nQueries < MaxQueries
    /\ \E name \in QueryNodes :
         \E r \in {is_op_supported(Builder, Graph[name])} :
            /\ primitive_ids' = r.b.primitive_ids
            /\ m_topology' = r.b.m_topology
            /\ perfMap' = r.b.perfMap
            /\ profiling_ids' = r.b.profiling_ids
            /\ allow_new_shape_infer' = r.b.allow_new_shape_infer
            /\ queryMode' = r.b.queryMode
            /\ dispatch' = r.b.dispatch
            /\ lastQuery' = [node |-> name, result |-> r.result, before |-> Snapshot,
                             prevStep |-> step, prevNode |-> lastQuery.node,
                             prevResult |-> lastQuery.result]
    /\ nQueries' = nQueries + 1
    /\ step' = "query"
    /\ UNCHANGED << m_program, cfg_allow_new_shape_infer, pc, ops, create_topology_only,
                    is_inner_program, opIdx, err, lowered, pidsAtBuild, compilerCalls,
                    Env >>

Next ==
    \/ BuildStart
    \/ LowerNode
    \/ FinalizeTopologyOnly
    \/ FinalizeCompile
    \/ IsOpSupported

Spec == Init /\ [][Next]_vars

-----------------------------------------------------------------------------
(* Static initialization: the units register their builders concurrently *)

BuildState ==
    << primitive_ids, m_topology, perfMap, profiling_ids, allow_new_shape_infer, queryMode,
       m_program, cfg_allow_new_shape_infer, enable_profiling, supports_immad,
       m_custom_layers, pc, ops, create_topology_only, is_inner_program, opIdx, err,
       dispatch, lowered, pidsAtBuild, nQueries, lastQuery, step, compilerCalls,
       TensorState >>

\* as MutexFree, for a registration that takes no lock
MutexFree_Always(holder) == TRUE

\* std::lock_guard<std::mutex> can be constructed: no unit holds the mutex
MutexFree(holder) == holder = ""

InitReg ==
    /\ BuilderInit
    /\ factories_map = EmptyMap
    /\ m_mutex = ""
    /\ reg = [u \in Units |-> [pc |-> "idle", idx |-> 1, local |-> EmptyMap]]
    /\ TensorNone
    /\ memory_cache = EmptyMap

\* register_factory entered: the lock is taken
RegLock(u) ==
    /\ reg[u].pc = "idle"
    /\ reg[u].idx <= Len(Registrations(u))
    /\ MutexFree(m_mutex)
    /\ m_mutex' = u
    /\ reg' = [reg EXCEPT ![u].pc = "locked"]
    /\ UNCHANGED << factories_map, BuildState >>

\* the insertion reads the map ...
RegFind(u) ==
    /\ reg[u].pc = "locked"
    /\ reg' = [reg EXCEPT ![u].pc = "found", ![u].local = factories_map]
    /\ UNCHANGED << factories_map, m_mutex, BuildState >>

\* ... and writes it back with the new entry
RegStore(u) ==
    /\ reg[u].pc = "found"
    /\ factories_map' = Put(reg[u].local, Registrations(u)[reg[u].idx],
                            Registry[Registrations(u)[reg[u].idx]])
    /\ reg' = [reg EXCEPT ![u].pc = "stored", ![u].local = EmptyMap]
    /\ UNCHANGED << m_mutex, BuildState >>

\* register_factory returns: the lock_guard releases the mutex
RegUnlock(u) ==
    /\ reg[u].pc = "stored"
    /\ m_mutex' = IF m_mutex = u THEN "" ELSE m_mutex
    /\ reg' = [reg EXCEPT ![u].pc = "idle", ![u].idx = @ + 1]
    /\ UNCHANGED << factories_map, BuildState >>

NextReg ==
    \/ \E u \in Units : RegLock(u)
    \/ \E u \in Units : RegFind(u)
    \/ \E u \in Units : RegStore(u)
    \/ \E u \in Units : RegUnlock(u)

SpecReg == InitReg /\ [][NextReg]_vars

-----------------------------------------------------------------------------
(* A remote tensor: constructed once, then reshaped *)

\* the builder, which the tensor calls leave alone
BuilderState ==
    << primitive_ids, m_topology, perfMap, profiling_ids, allow_new_shape_infer, queryMode,
       m_program, cfg_allow_new_shape_infer, enable_profiling, supports_immad,
       m_custom_layers, factories_map, pc, ops, create_topology_only, is_inner_program,
       opIdx, err, dispatch, lowered, pidsAtBuild, nQueries, lastQuery, step,
       compilerCalls, m_mutex, reg >>

\* the cache of the context before the tensor is made: empty, or holding the
\* object another tensor shared for the same handle, element type and shape
CachesBefore ==
    { EmptyMap,
      Put(EmptyMap, tensor_hash("h1", "f32", <<2, 3>>),
          engine_memory("shared_buffer", make_layout("f32", <<2, 3>>), "h1")) }

InitTensor ==
    /\ BuilderInit
    /\ ~cfg_allow_new_shape_infer /\ ~enable_profiling /\ ~supports_immad
    /\ m_custom_layers = {}
    /\ factories_map = Registry
    /\ m_mutex = ""
    /\ reg = [u \in Units |-> [pc |-> "idle", idx |-> Len(Registrations(u)) + 1, local |-> EmptyMap]]
    /\ TensorNone
    /\ memory_cache \in CachesBefore

\* the tensor record t becomes the state
TensorBecomes(t) ==
    /\ m_element_type' = t.m_element_type
    /\ m_shape' = t.m_shape
    /\ m_layout' = t.m_layout
    /\ m_mem_type' = t.m_mem_type
    /\ m_mem' = t.m_mem
    /\ m_hash' = t.m_hash
    /\ m_strides' = t.m_strides
    /\ m_memory_object' = t.m_memory_object
    /\ m_properties' = t.m_properties
    /\ memory_cache' = t.memory_cache
    /\ tensor_err' = t.err

\* the constructor, lines 16-45
TensorConstruct ==
    /\ tensor_pc = "none"
    /\ \E shape \in TensorShapes, et \in ElementTypes, mem_type \in TensorTypes,
          mem \in SharedHandles :
         \E t \in {RemoteTensorImpl(memory_cache, shape, et, mem_type, mem)} :
            /\ TensorBecomes(t)
            /\ tensor_pc' = IF t.err = NoError THEN "alive" ELSE "failed"
            /\ lastCall' = [op |-> "construct", shape |-> shape, before |-> Tensor]
    /\ UNCHANGED BuilderState

\* a whole set_shape call, lines 80-92
TensorSetShape ==
    /\ tensor_pc = "alive"
    /\ \E shape \in TensorShapes :
         \E t \in {set_shape(Tensor, shape)} :
            /\ TensorBecomes(t)
            /\ lastCall' = [op |-> "set_shape", shape |-> shape, before |-> Tensor]
    /\ UNCHANGED << tensor_pc, BuilderState >>

NextTensor ==
    \/ TensorConstruct
    \/ TensorSetShape

SpecTensor == InitTensor /\ [][NextTensor]_vars

-----------------------------------------------------------------------------
(* Vocabulary of the properties *)

Range(f) == { f[i] : i \in DOMAIN f }

NodeIds(list) == { layer_type_name_ID(Graph[list[i]]) : i \in 1..Len(list) }

\* every producer precedes its consumers in the list
TopoOrdered(list) ==
    \A i \in 1..Len(list) : \A k \in 1..get_input_size(Graph[list[i]]) :
        \E j \in 1..(i - 1) : list[j] = Graph[list[i]].inputs[k].node

\* build() has just returned normally
BuildSucceeded == step = "finalize" /\ pc = "done"

\* the primitives the finished build produced
BuiltPrims == IF create_topology_only THEN m_topology.prims ELSE m_program.prims

\* the node the last LowerNode step dispatched
AttemptedNode == Graph[IF pc = "failed" THEN ops[opIdx] ELSE ops[opIdx - 1]]

\* the type identities of a node's chain, most specific first
RECURSIVE TypeChain(_)
TypeChain(t) == IF t = "" THEN {} ELSE {t} \cup TypeChain(TypeInfo[t].parent)

\* ids of the primitives that are not named after the node they come from
SelfAliased(prims) ==
    { prims[i].id : i \in { k \in 1..Len(prims) :
          prims[k].id # layer_type_name_ID(Graph[prims[k].origin_op_name]) } }

\* the id of the last primitive the topology holds for a node
LastPrimOf(prims, name) ==
    prims[CHOOSE i \in 1..Len(prims) :
            /\ prims[i].origin_op_name = name
            /\ \A j \in (i + 1)..Len(prims) : prims[j].origin_op_name # name].id

\* the keys one node may own under the reading "one per node, or one per output"
PerNodeKeys(n) ==
    {layer_type_name_ID(n)} \cup
    { layer_type_name_ID(n) \o ".out" \o to_string(k) : k \in 0..(get_output_size(n) - 1) }

-----------------------------------------------------------------------------
(* C1 *)

\* C1 as stated: after a successful build of a topologically ordered list on a
\* builder whose map was empty, the Identity Map holds one entry per lowered node
\* (or one per node output) and no other entry.
C1_ExactlyOnePerNode ==
    (BuildSucceeded /\ TopoOrdered(ops) /\ pidsAtBuild = EmptyMap) =>
        /\ \A i \in 1..Len(ops) : PerNodeKeys(Graph[ops[i]]) \cap DOMAIN primitive_ids # {}
        /\ DOMAIN primitive_ids \subseteq UNION { PerNodeKeys(Graph[ops[i]]) : i \in 1..Len(ops) }

\* C1 amended: after a successful build the Identity Map holds, besides the entries
\* it held when the build began, one entry keyed by each lowered node's identity,
\* valued with the id of the last primitive added for the node, and one self-alias
\* entry (key = value) for every primitive whose id differs from its node's identity.
C1_IdentityMapAfterBuild ==
    BuildSucceeded =>
        /\ DOMAIN primitive_ids =
               DOMAIN pidsAtBuild \cup NodeIds(ops) \cup SelfAliased(BuiltPrims)
        /\ \A i \in 1..Len(ops) :
               primitive_ids[layer_type_name_ID(Graph[ops[i]])] = LastPrimOf(BuiltPrims, ops[i])
        /\ \A k \in SelfAliased(BuiltPrims) \ NodeIds(ops) : primitive_ids[k] = k

\* a MatMul of a successful, ordered build left a self-alias beside its identity
C1_Witness ==
    /\ BuildSucceeded /\ TopoOrdered(ops) /\ pidsAtBuild = EmptyMap
    /\ "matmul:mm1_cldnn_out_reshape" \in DOMAIN primitive_ids
    /\ "matmul:mm1" \in DOMAIN primitive_ids

-----------------------------------------------------------------------------
(* C2 *)

\* C2: after is_op_supported returns, the Identity Map, the profiling tables and
\* the regime flag are what they were before the call.
C2_QueryLeavesBuildState ==
    (step = "query" /\ Graph[lastQuery.node].type = "MatMul" /\ m_custom_layers = {}) =>
        /\ primitive_ids = lastQuery.before.primitive_ids
        /\ perfMap = lastQuery.before.perfMap
        /\ profiling_ids = lastQuery.before.profiling_ids
        /\ allow_new_shape_infer = lastQuery.before.allow_new_shape_infer

-----------------------------------------------------------------------------
(* C3 *)

RECURSIVE LowerAll(_, _)
LowerAll(b, list) ==
    IF list = <<>> THEN b
    ELSE LowerAll(CreateSingleLayerPrimitive(b, Graph[Head(list)]), Tail(list))

\* the builder a build of the list starts from when nothing was done before
FreshBuilder(list) ==
    [primitive_ids |-> EmptyMap, m_topology |-> [live |-> TRUE, prims |-> <<>>],
     perfMap |-> EmptyMap, profiling_ids |-> <<>>,
     allow_new_shape_infer |-> RegimeScan(list, FALSE, FALSE, FALSE),
     queryMode |-> FALSE, err |-> NoError, dispatch |-> <<>>]

\* two consecutive queries of one node return the same boolean
C3_SameBoolean ==
    (step = "query" /\ lastQuery.prevStep = "query" /\ lastQuery.prevNode = lastQuery.node)
        => lastQuery.result = lastQuery.prevResult

\* a build yields the topology and identity map it yields on an untouched builder
C3_BuildUnaffected ==
    (BuildSucceeded /\ ~is_inner_program /\ m_custom_layers = {}) =>
        /\ LowerAll(FreshBuilder(ops), ops).err = NoError
        /\ BuiltPrims = LowerAll(FreshBuilder(ops), ops).m_topology.prims
        /\ primitive_ids = LowerAll(FreshBuilder(ops), ops).primitive_ids

-----------------------------------------------------------------------------
(* C4 *)

\* C4: when is_op_supported returns, true or false, the builder has left query
\* mode and the topology prepare_build allocated is released.
C4_QueryCleansUp == step = "query" => (~queryMode /\ ~m_topology.live)

-----------------------------------------------------------------------------
(* C5 *)

\* C5: if any node of the list forces the new regime, every node of the build was
\* lowered with allow_new_shape_infer true, and the flag never went back from true
\* to false while the build ran.
C5_RegimeSticky ==
    pc \in {"lowering", "done", "failed"} =>
        /\ (\E i \in 1..Len(ops) : requires_new_shape_infer(Graph[ops[i]]))
              => \A k \in 1..Len(lowered) : lowered[k].allow
        /\ \A k \in 1..Len(lowered) : \A l \in k..Len(lowered) :
              lowered[k].allow => lowered[l].allow
        /\ (pc = "lowering" /\ lowered # <<>> /\ lowered[Len(lowered)].allow)
              => allow_new_shape_infer

\* a whole list was lowered whose last node forces the regime and whose first does not
C5_Witness ==
    /\ pc = "done"
    /\ Len(lowered) = Len(ops)
    /\ Len(ops) > 1
    /\ requires_new_shape_infer(Graph[ops[Len(ops)]])
    /\ ~requires_new_shape_infer(Graph[ops[1]])
    /\ lowered[1].allow

-----------------------------------------------------------------------------
(* C6 *)

\* C6: after build ends in compile mode, with a program or with a backend failure,
\* the topology has been released.
C6_FinalizeReleasesTopology ==
    (step = "finalize" /\ ~create_topology_only) => ~m_topology.live

-----------------------------------------------------------------------------
(* C7 *)

\* C7: an error ends the build: after a lowering error no later node is lowered,
\* the backend compiler is not called and there is no program; after a backend
\* failure the error carries the backend's text and there is no program.
C7_ErrorAbortsBuild ==
    /\ err # NoError => (pc = "failed" /\ ~m_program.built)
    /\ pc = "failed" =>
          /\ err # NoError
          /\ ~m_program.built
          /\ err[1] # "BuildFailed" =>
                /\ compilerCalls = 0
                /\ opIdx <= Len(ops)
                /\ Len(lowered) = opIdx - 1
                /\ \A k \in 1..Len(lowered) : lowered[k].node = ops[k]
          /\ err[1] = "BuildFailed" =>
                /\ Len(err) = 3 /\ err[3] \in BackendErrors
                /\ compilerCalls = 1

\* a build stopped at an unsupported node that has nodes after it
C7_Witness ==
    /\ pc = "failed" /\ err # NoError /\ err[1] # "BuildFailed"
    /\ opIdx < Len(ops)
    /\ compilerCalls = 0

-----------------------------------------------------------------------------
(* C8 *)

\* the inputs of node n whose identity the Identity Map lacks
AbsentInputs(n) ==
    { i \in 1..get_input_size(n) : ~Has(primitive_ids, prevNameOf(Builder, n, i)) }

\* C8: outside query mode, a lowering that gets to resolve the inputs of a node
\* with an absent input identity fails with the input-not-found error naming the
\* first absent identity, and adds nothing.
C8_MissingInputIsAnError ==
    [][ (/\ pc = "lowering" /\ opIdx <= Len(ops) /\ ~queryMode
         /\ AbsentInputs(Graph[ops[opIdx]]) # {}
         /\ pc' # "lowering" \/ opIdx' # opIdx
         /\ ~(err' # NoError /\ err'[1] \in {"NotSupported", "InvalidInputsCount"}))
        => (/\ pc' = "failed"
            /\ \E i \in AbsentInputs(Graph[ops[opIdx]]) :
                  /\ \A j \in AbsentInputs(Graph[ops[opIdx]]) : i <= j
                  /\ err' = <<"InputNotFound", prevNameOf(Builder, Graph[ops[opIdx]], i)>>
            /\ primitive_ids' = primitive_ids
            /\ m_topology' = m_topology) ]_vars

\* a build failed on a MatMul whose producer was never lowered
C8_Witness ==
    /\ pc = "failed" /\ ~queryMode /\ step = "lower"
    /\ err = <<"InputNotFound", "parameter:y">>

-----------------------------------------------------------------------------
(* C9 *)

Unsupported(n) ==
    /\ n.type \notin m_custom_layers
    /\ TypeChain(n.type) \cap DOMAIN factories_map = {}

\* C9: a node without override whose whole type chain is unregistered fails with
\* the not-supported error carrying its name, type name and version, and no
\* builder is invoked.
C9_UnsupportedTypeFails ==
    /\ (step = "lower" /\ Unsupported(AttemptedNode)) =>
          /\ pc = "failed"
          /\ err = <<"NotSupported", AttemptedNode.name, AttemptedNode.type,
                     TypeInfo[AttemptedNode.type].version_id>>
          /\ dispatch = <<>>
    /\ (step = "query" /\ Unsupported(Graph[lastQuery.node])) =>
          (~lastQuery.result /\ dispatch = <<>>)

\* the build met the Mystery node, whose chain Mystery -> MysteryBase is unregistered
C9_Witness ==
    /\ step = "lower" /\ pc = "failed"
    /\ AttemptedNode.type = "Mystery"
    /\ err = <<"NotSupported", "u", "Mystery", "extension">>

-----------------------------------------------------------------------------
(* C10 *)

\* C10: a node whose type name is in the overlay table goes through the custom
\* path only: no registry builder is invoked, registered or not.
C10_CustomKernelPrecedence ==
    /\ (step = "lower" /\ AttemptedNode.type \in m_custom_layers) =>
          dispatch = << <<"custom", AttemptedNode.type>> >>
    /\ (step = "query" /\ Graph[lastQuery.node].type \in m_custom_layers) =>
          dispatch = << <<"custom", Graph[lastQuery.node].type>> >>

\* a MatMul, registered in the registry, was lowered through its override
C10_Witness ==
    /\ step = "lower" /\ pc = "lowering"
    /\ AttemptedNode.type = "MatMul"
    /\ "MatMul" \in m_custom_layers /\ "MatMul" \in DOMAIN factories_map
    /\ dispatch = << <<"custom", "MatMul">> >>

-----------------------------------------------------------------------------
(* C11 *)

\* the type identities of t's chain, most specific first, as a sequence
RECURSIVE TypeChainSeq(_)
TypeChainSeq(t) == IF t = "" THEN <<>> ELSE <<t>> \o TypeChainSeq(TypeInfo[t].parent)

\* the most specific registered identity of t's chain
FirstRegistered(t) ==
    TypeChainSeq(t)[CHOOSE i \in 1..Len(TypeChainSeq(t)) :
                      /\ TypeChainSeq(t)[i] \in DOMAIN factories_map
                      /\ \A j \in 1..(i - 1) : TypeChainSeq(t)[j] \notin DOMAIN factories_map]

\* a node dispatched through the registry: no override, some identity registered
ViaRegistry(n) ==
    n.type \notin m_custom_layers /\ TypeChain(n.type) \cap DOMAIN factories_map # {}

\* C11: for a node without a custom override the builders invoked are exactly one:
\* the builder registered for the most specific registered identity of the node's
\* type chain; no builder of a less specific ancestor runs, registered or not.
C11_MostSpecificBuilderOnce ==
    /\ (step = "lower" /\ ViaRegistry(AttemptedNode)) =>
          dispatch = << <<"factory", FirstRegistered(AttemptedNode.type)>> >>
    /\ (step = "query" /\ ViaRegistry(Graph[lastQuery.node])) =>
          dispatch = << <<"factory", FirstRegistered(Graph[lastQuery.node].type)>> >>

\* GemmEx and its parent MatMul are both registered and GemmEx's builder ran, after
\* the unregistered FusedMatMul had been lowered by the builder of its parent MatMul
C11_Witness ==
    /\ step = "lower" /\ pc = "lowering"
    /\ AttemptedNode.type = "GemmEx"
    /\ {"GemmEx", "MatMul"} \subseteq DOMAIN factories_map
    /\ dispatch = << <<"factory", "GemmEx">> >>
    /\ \E i \in 1..Len(m_topology.prims) :
          /\ m_topology.prims[i].id = "fusedmatmul:fm"
          /\ m_topology.prims[i].type = "gemm"

-----------------------------------------------------------------------------
(* C12 *)

\* the producer of input i of node n is addressed by name: it has several outputs
\* and the regime is legacy or it is one of the two split kinds
AddressedByName(n, i) ==
    /\ Len(Graph[n.inputs[i].node].outShapes) > 1
    /\ \/ ~allow_new_shape_infer
       \/ is_type(Graph[n.inputs[i].node], "Split")
       \/ is_type(Graph[n.inputs[i].node], "VariadicSplit")

\* the identity the rule looks up for input i of node n
ExpectedIdentity(n, i) ==
    IF AddressedByName(n, i)
    THEN tolower(Graph[n.inputs[i].node].type) \o ":" \o n.inputs[i].node
         \o ".out" \o to_string(n.inputs[i].index)
    ELSE tolower(Graph[n.inputs[i].node].type) \o ":" \o n.inputs[i].node

\* the rule on what GetInputInfo returns for node n on the current builder
ResolvedByRule(n) ==
    GetInputInfo(Builder, n).err = NoError =>
        /\ Len(GetInputInfo(Builder, n).infos) = Len(n.inputs)
        /\ \A i \in 1..Len(n.inputs) :
              /\ GetInputInfo(Builder, n).infos[i].pid =
                    IF queryMode THEN ExpectedIdentity(n, i)
                    ELSE primitive_ids[ExpectedIdentity(n, i)]
              /\ GetInputInfo(Builder, n).infos[i].idx =
                    IF AddressedByName(n, i) THEN 0 ELSE n.inputs[i].index

\* C12: the input references resolved for the node the build is about to lower are
\* one per input edge, in order; a producer with several outputs that is a split
\* kind or lowered in the legacy regime is looked up as identity.outN with output
\* index 0, every other producer under its plain identity with the edge's own
\* output index.
C12_InputResolutionRule ==
    (pc = "lowering" /\ opIdx <= Len(ops)) => ResolvedByRule(Graph[ops[opIdx]])

\* in the new regime the second output of a TopK was resolved to (topk:t, 1) and the
\* gemm of its consumer reads it
C12_Witness ==
    /\ pc = "lowering" /\ step = "lower" /\ allow_new_shape_infer /\ ~queryMode
    /\ AttemptedNode.name = "mmt"
    /\ \E i \in 1..Len(m_topology.prims) :
          /\ m_topology.prims[i].id = "matmul:mmt"
          /\ m_topology.prims[i].inputs[1] = input_info("topk:t", 1)
          /\ m_topology.prims[i].inputs[1] = GetInputInfo(Builder, Graph["mmt"]).infos[1]

-----------------------------------------------------------------------------
(* C13 *)

\* the primitives the builder holds: the topology's, or the finished program's
AllPrims == IF m_topology.live THEN m_topology.prims ELSE m_program.prims

\* the identity of the node a primitive was added for
OriginId(p) == layer_type_name_ID(Graph[p.origin_op_name])

\* the primitive is output 0 of its node, named identity.out0
IsOut0(p) == p.id = OriginId(p) \o ".out0"

\* C13 as stated: a primitive named identity.out0 gets neither a self-alias entry
\* nor a new diagnostic type name; any other primitive whose id differs from the
\* node identity gets both; a primitive named after its node keeps the node's type
\* name.
C13_NoAliasForOut0 ==
    nQueries = 0 =>
        \A i \in 1..Len(AllPrims) :
            /\ Has(primitive_ids, OriginId(AllPrims[i]))
            /\ IsOut0(AllPrims[i]) =>
                  /\ ~Has(primitive_ids, AllPrims[i].id)
                  /\ AllPrims[i].origin_op_type_name = Graph[AllPrims[i].origin_op_name].type
            /\ (AllPrims[i].id # OriginId(AllPrims[i]) /\ ~IsOut0(AllPrims[i])) =>
                  /\ primitive_ids[AllPrims[i].id] = AllPrims[i].id
                  /\ AllPrims[i].origin_op_type_name = AllPrims[i].type
            /\ AllPrims[i].id = OriginId(AllPrims[i]) =>
                  AllPrims[i].origin_op_type_name = Graph[AllPrims[i].origin_op_name].type

\* C13 amended: every added primitive's node identity is a key of the Identity Map;
\* a primitive whose id differs from the node identity is recorded as its own alias,
\* identity.out0 included; the diagnostic type name is the primitive-type string
\* when the id differs from the node identity and is not identity.out0, and the
\* node's type name otherwise.
C13_AliasAndTypeName ==
    \A i \in 1..Len(AllPrims) :
        /\ Has(primitive_ids, OriginId(AllPrims[i]))
        /\ AllPrims[i].id # OriginId(AllPrims[i]) =>
              (Has(primitive_ids, AllPrims[i].id) /\ primitive_ids[AllPrims[i].id] = AllPrims[i].id)
        /\ AllPrims[i].origin_op_type_name =
              IF AllPrims[i].id # OriginId(AllPrims[i]) /\ ~IsOut0(AllPrims[i])
              THEN AllPrims[i].type
              ELSE Graph[AllPrims[i].origin_op_name].type

\* a Split was lowered in the legacy regime: its crop split:s.out0 is its own alias
\* and keeps the type name Split, its crop split:s.out1 is labelled crop
C13_Witness ==
    /\ \E i \in 1..Len(AllPrims) :
          /\ AllPrims[i].id = "split:s.out0"
          /\ AllPrims[i].origin_op_type_name = "Split"
    /\ \E i \in 1..Len(AllPrims) :
          /\ AllPrims[i].id = "split:s.out1"
          /\ AllPrims[i].origin_op_type_name = "crop"
    /\ Has(primitive_ids, "split:s.out0")
    /\ primitive_ids["split:s.out0"] = "split:s.out0"

-----------------------------------------------------------------------------
(* C14 *)

PrimIds(prims) == { prims[i].id : i \in 1..Len(prims) }

\* every input reference of every primitive names a primitive of the same sequence
ReferencesResolve(prims) ==
    \A i \in 1..Len(prims) : \A k \in 1..Len(prims[i].inputs) :
        prims[i].inputs[k].pid \in PrimIds(prims)

\* C14: while a build outside query mode lowers a topologically ordered list, and
\* after it has succeeded, every input reference of every primitive of the topology
\* names a primitive of the topology.
C14_TopologyReferencesResolve ==
    (pc \in {"lowering", "done", "failed"} /\ TopoOrdered(ops) /\ ~queryMode) =>
        /\ ReferencesResolve(m_topology.prims)
        /\ pc = "done" => ReferencesResolve(BuiltPrims)

\* a successful ordered build holds a MatMul's permutations, its gemm reading them,
\* and the reshape reading the gemm
C14_Witness ==
    /\ BuildSucceeded /\ TopoOrdered(ops) /\ ~queryMode
    /\ \E i, j, k \in 1..Len(BuiltPrims) :
          /\ i < j /\ j < k
          /\ BuiltPrims[i].type = "permute"
          /\ BuiltPrims[j].type = "gemm"
          /\ BuiltPrims[j].inputs[2].pid = BuiltPrims[i].id
          /\ BuiltPrims[k].type = "reshape"
          /\ BuiltPrims[k].inputs[1].pid = BuiltPrims[j].id

-----------------------------------------------------------------------------
(* C15 *)

\* unit u is inside a registration call
InCall(u) == reg[u].pc \in {"locked", "found", "stored"}

AllRegistered == \A u \in Units : reg[u].pc = "idle" /\ reg[u].idx > Len(Registrations(u))

\* C15: registrations exclude each other: at most one unit is inside a registration
\* call, the mutex is held by a unit exactly while it is inside one, every
\* registration that has returned is found in the registry with its builder, and
\* once all have returned the registry holds every registered identity and no
\* unit holds the mutex.
C15_RegistrationMutuallyExclusive ==
    /\ \A u, v \in Units : (InCall(u) /\ InCall(v)) => u = v
    /\ \A u \in Units : (m_mutex = u) <=> InCall(u)
    /\ \A u \in Units : \A k \in 1..(reg[u].idx - 1) :
          /\ Has(factories_map, Registrations(u)[k])
          /\ factories_map[Registrations(u)[k]] = Registry[Registrations(u)[k]]
    /\ AllRegistered => (factories_map = Registry /\ m_mutex = "")

\* all six units have registered, one after another in some interleaving
C15_Witness ==
    /\ AllRegistered
    /\ m_mutex = ""
    /\ DOMAIN factories_map =
          {"Parameter", "MatMul", "GemmEx", "Split", "VariadicSplit", "TopK", "Constant",
           "FullyConnectedCompressed"}

-----------------------------------------------------------------------------
(* Vocabulary of the MatMul properties *)

\* the MatMul nodes whose gemm primitive the builder holds
LoweredMatMuls ==
    { AllPrims[i].origin_op_name : i \in { k \in 1..Len(AllPrims) : AllPrims[k].type = "gemm" } }

GemmOf(name) ==
    AllPrims[CHOOSE i \in 1..Len(AllPrims) :
                AllPrims[i].type = "gemm" /\ AllPrims[i].origin_op_name = name]

\* the permutation primitive added for an operand of node name, if any
Permutes(name, suffix) ==
    { i \in 1..Len(AllPrims) :
        /\ AllPrims[i].type = "permute"
        /\ AllPrims[i].origin_op_name = name
        /\ AllPrims[i].id = name \o suffix }

\* the two input shapes of a MatMul node
ShapeA(name) == Graph[Graph[name].inputs[1].node].outShapes[Graph[name].inputs[1].index + 1]

ShapeB(name) == Graph[Graph[name].inputs[2].node].outShapes[Graph[name].inputs[2].index + 1]

\* the trailing two dimensions of both operands
TrailingDims(name) ==
    { ShapeA(name)[i] : i \in ((Len(ShapeA(name)) - 1)..Len(ShapeA(name))) \cap DOMAIN ShapeA(name) } \cup
    { ShapeB(name)[i] : i \in ((Len(ShapeB(name)) - 1)..Len(ShapeB(name))) \cap DOMAIN ShapeB(name) }

StaticRank2(name) ==
    /\ Len(ShapeA(name)) >= 2 /\ Len(ShapeB(name)) >= 2
    /\ \A i \in 1..Len(ShapeA(name)) : ShapeA(name)[i] # Dyn
    /\ \A i \in 1..Len(ShapeB(name)) : ShapeB(name)[i] # Dyn

AllAligned16(name) == \A dim \in TrailingDims(name) : dim # Dyn /\ dim % 16 = 0

\* every operand of node name whose flag is set was transposed by a permutation
\* and the gemm's flag for it is false
FlaggedOperandsFixed(name) ==
    /\ Graph[name].transpose_a =>
          (Permutes(name, "/transpose_a") # {} /\ ~GemmOf(name).transpose_a)
    /\ Graph[name].transpose_b =>
          (Permutes(name, "/transpose_b") # {} /\ ~GemmOf(name).transpose_b)

-----------------------------------------------------------------------------
(* C16 *)

\* C16: a lowered MatMul with static inputs of rank >= 2 whose trailing two
\* dimensions are all >= 64 and not all multiples of 16 has a permutation for every
\* operand whose flag is set, and its gemm's flag for that operand is false,
\* whatever the element type and supports_immad.
C16_LargeDimsFixup ==
    \A name \in LoweredMatMuls :
        (/\ StaticRank2(name)
         /\ \A dim \in TrailingDims(name) : dim >= 64
         /\ ~AllAligned16(name))
        => FlaggedOperandsFixed(name)

\* on a device with supports_immad the i8 MatMul of [100,100] inputs got its
\* permutation for operand A
C16_Witness ==
    /\ supports_immad
    /\ "mm6" \in LoweredMatMuls
    /\ Graph["mm6"].etype = "i8" /\ Graph["mm6"].transpose_a
    /\ Permutes("mm6", "/transpose_a") # {}
    /\ ~GemmOf("mm6").transpose_a

-----------------------------------------------------------------------------
(* C17 *)

\* C17: a lowered MatMul whose inputs' trailing two dimensions are all multiples of
\* 16 has no permutation for either operand, and its gemm carries the node's
\* transpose_a and transpose_b.
C17_AlignmentBypass ==
    \A name \in LoweredMatMuls :
        AllAligned16(name) =>
            /\ Permutes(name, "/transpose_a") = {}
            /\ Permutes(name, "/transpose_b") = {}
            /\ GemmOf(name).transpose_a = Graph[name].transpose_a
            /\ GemmOf(name).transpose_b = Graph[name].transpose_b

\* the MatMul of [1024,1024] inputs with both flags set was lowered without device
\* acceleration: no permutation, both flags still set on the gemm
C17_Witness ==
    /\ ~supports_immad
    /\ "mm7" \in LoweredMatMuls
    /\ Permutes("mm7", "/transpose_a") = {} /\ Permutes("mm7", "/transpose_b") = {}
    /\ GemmOf("mm7").transpose_a /\ GemmOf("mm7").transpose_b

-----------------------------------------------------------------------------
(* C18 *)

\* C18: a lowered MatMul with static, rank >= 2, non-16-aligned inputs and a flag
\* set, whose first input is not i8/u8, on a device without supports_immad, has
\* its flagged operands transposed by permutations as soon as one operand, A or B,
\* has more than 100000 elements.
C18_LargeTensorFixup ==
    \A name \in LoweredMatMuls :
        (/\ StaticRank2(name)
         /\ ~AllAligned16(name)
         /\ Graph[name].transpose_a \/ Graph[name].transpose_b
         /\ Graph[Graph[name].inputs[1].node].etype \notin {"i8", "u8"}
         /\ ~supports_immad
         /\ count(ShapeA(name)) > 100000 \/ count(ShapeB(name)) > 100000)
        => FlaggedOperandsFixed(name)

-----------------------------------------------------------------------------
(* C19 *)

\* the profiling entry of a primitive
ProfileEntry(p) ==
    [first |-> p.id, layerType |-> p.origin_op_type_name, status |-> "EXECUTED",
     cpu_uSec |-> 0, realTime_uSec |-> 0, isCPU |-> FALSE,
     parentPrimitive |-> p.origin_op_name]

\* C19: with profiling enabled every primitive the builder holds whose type is
\* neither data nor mutable_data has its entry in the profiling table, keyed by its
\* id: EXECUTED, times 0, not CPU, parent the node's friendly name, layer type the
\* primitive's diagnostic type name; data and mutable_data primitives have no
\* entry, and with profiling disabled the table stays empty.
C19_ProfilingSink ==
    /\ \A i \in 1..Len(AllPrims) :
          IF enable_profiling /\ AllPrims[i].type \notin {"data", "mutable_data"}
          THEN /\ Has(perfMap, AllPrims[i].id)
               /\ perfMap[AllPrims[i].id] = ProfileEntry(AllPrims[i])
               /\ AllPrims[i].id \in Range(profiling_ids)
          ELSE /\ ~Has(perfMap, AllPrims[i].id)
               /\ AllPrims[i].id \notin Range(profiling_ids)
    /\ ~enable_profiling => (perfMap = EmptyMap /\ profiling_ids = <<>>)

\* with profiling enabled the builder holds a data primitive without an entry
\* beside a permute with its entry
C19_Witness ==
    /\ enable_profiling
    /\ \E i, j \in 1..Len(AllPrims) :
          /\ AllPrims[i].type = "data" /\ ~Has(perfMap, AllPrims[i].id)
          /\ AllPrims[j].type = "permute" /\ Has(perfMap, AllPrims[j].id)
          /\ perfMap[AllPrims[j].id].layerType = "permute"
          /\ perfMap[AllPrims[j].id].parentPrimitive = AllPrims[j].origin_op_name

-----------------------------------------------------------------------------
(* C20 *)

\* the value canTransposeInputs returns for node name on this device
Heuristic(name) ==
    canTransposeInputs(<<ShapeA(name), ShapeB(name)>>, Graph[name].transpose_a,
                       Graph[name].transpose_b, Graph[Graph[name].inputs[1].node].etype,
                       supports_immad)

\* operand k of node name: permuted and rebound, or left as resolved
OperandPreserved(name, k, suffix, nodeFlag, gemmFlag) ==
    /\ Permutes(name, suffix) # {} <=> (Heuristic(name) /\ nodeFlag)
    /\ \A i \in Permutes(name, suffix) :
          /\ AllPrims[i].param = transposeOrder(IF k = 1 THEN ShapeA(name) ELSE ShapeB(name))
          /\ AllPrims[i].inputs[1].pid = GetInputInfo(Builder, Graph[name]).infos[k].pid
    /\ IF Heuristic(name) /\ nodeFlag
       THEN /\ GemmOf(name).inputs[k] = input_info(name \o suffix, 0)
            /\ ~gemmFlag
       ELSE /\ GemmOf(name).inputs[k] = GetInputInfo(Builder, Graph[name]).infos[k]
            /\ gemmFlag = nodeFlag

\* C20: while a build runs and when it ends, each operand of each lowered MatMul
\* has a permutation exactly when canTransposeInputs held and the operand's flag is
\* set; the gemm then reads the permutation with the flag false, and otherwise
\* reads the resolved producer with the node's flag.
C20_TransposePreservedPerOperand ==
    step \in {"lower", "finalize"} =>
        \A name \in LoweredMatMuls :
            /\ OperandPreserved(name, 1, "/transpose_a", Graph[name].transpose_a,
                                GemmOf(name).transpose_a)
            /\ OperandPreserved(name, 2, "/transpose_b", Graph[name].transpose_b,
                                GemmOf(name).transpose_b)

\* the heuristic held for a MatMul with transpose_b only: B is read through its
\* permutation with the flag cleared, A straight from its producer
C20_Witness ==
    /\ step = "lower"
    /\ "mm4" \in LoweredMatMuls
    /\ Heuristic("mm4")
    /\ Permutes("mm4", "/transpose_a") = {} /\ Permutes("mm4", "/transpose_b") # {}
    /\ GemmOf("mm4").inputs = <<input_info("split:s.out0", 0), input_info("mm4/transpose_b", 0)>>
    /\ ~GemmOf("mm4").transpose_a /\ ~GemmOf("mm4").transpose_b

-----------------------------------------------------------------------------
(* C21 *)

\* the indices of the gemm primitives the builder holds
GemmIdx == { k \in 1..Len(AllPrims) : AllPrims[k].type = "gemm" }

\* the reshape primitives added for node name
ReshapesOf(name) ==
    { i \in 1..Len(AllPrims) :
        AllPrims[i].type = "reshape" /\ AllPrims[i].origin_op_name = name }

\* C21: while a build runs and when it ends, each lowered MatMul has a reshape
\* exactly when the regime is legacy and its output rank is below 4; the reshape
\* is named identity_cldnn_out_reshape, comes after the gemm, reads the gemm and
\* carries the node's output shape.
C21_LegacyOutputReshape ==
    step \in {"lower", "finalize"} =>
        \A g \in GemmIdx :
            /\ ReshapesOf(AllPrims[g].origin_op_name) # {} <=>
                  (/\ ~allow_new_shape_infer
                   /\ Len(Graph[AllPrims[g].origin_op_name].outShapes[1]) < 4)
            /\ \A i \in ReshapesOf(AllPrims[g].origin_op_name) :
                  /\ i = g + 1
                  /\ AllPrims[i].id = AllPrims[g].id \o "_cldnn_out_reshape"
                  /\ AllPrims[i].inputs = <<input_info(AllPrims[g].id, 0)>>
                  /\ AllPrims[i].param = Graph[AllPrims[g].origin_op_name].outShapes[1]

\* a legacy build holds the MatMul of rank-4 inputs without a reshape beside a
\* MatMul of rank-2 inputs with its reshape
C21_Witness ==
    /\ step = "lower" /\ ~allow_new_shape_infer
    /\ \E g, h \in GemmIdx :
          /\ AllPrims[g].origin_op_name = "mm10" /\ ReshapesOf("mm10") = {}
          /\ AllPrims[h].origin_op_name = "mm6" /\ ReshapesOf("mm6") # {}

-----------------------------------------------------------------------------
(* C22 *)

\* the node is dispatched to the MatMul builder
ToMatMulBuilder(n) ==
    ViaRegistry(n) /\ factories_map[FirstRegistered(n.type)] = "CreateMatMulOp"

\* C22: a lowering step that dispatches a node to the MatMul builder fails with
\* the invalid-inputs-count error carrying the actual count, and leaves Identity
\* Map, topology and profiling table as they were, when the node has not exactly
\* 2 inputs; with exactly 2 inputs it never ends in that error. A query of such a
\* node answers false and leaves the Identity Map as it was.
C22_ArityValidatedFirst ==
    [][ /\ (/\ pc = "lowering" /\ opIdx <= Len(ops)
            /\ pc' # "lowering" \/ opIdx' # opIdx
            /\ ToMatMulBuilder(Graph[ops[opIdx]]))
           => IF Len(Graph[ops[opIdx]].inputs) # 2
              THEN /\ pc' = "failed"
                   /\ err' = <<"InvalidInputsCount", Len(Graph[ops[opIdx]].inputs),
                               ops[opIdx], Graph[ops[opIdx]].type,
                               TypeInfo[Graph[ops[opIdx]].type].version_id>>
                   /\ primitive_ids' = primitive_ids
                   /\ m_topology' = m_topology
                   /\ perfMap' = perfMap
              ELSE ~(err' # NoError /\ err'[1] = "InvalidInputsCount")
        /\ (/\ nQueries' = nQueries + 1
            /\ ToMatMulBuilder(Graph[lastQuery'.node])
            /\ Len(Graph[lastQuery'.node].inputs) # 2)
           => (~lastQuery'.result /\ primitive_ids' = primitive_ids /\ perfMap' = perfMap)
      ]_vars

\* a build failed on the MatMul with three inputs, the two Parameters before it
\* being all the topology holds
C22_Witness ==
    /\ step = "lower" /\ pc = "failed"
    /\ err = <<"InvalidInputsCount", 3, "mm5", "MatMul", "opset1">>
    /\ Len(m_topology.prims) = 2
    /\ "matmul:mm5" \notin DOMAIN primitive_ids

-----------------------------------------------------------------------------
(* C23 *)

\* the output shapes of node name and the shapes of its inputs
ShapesOf(name) ==
    Range(Graph[name].outShapes) \cup
    { Graph[Graph[name].inputs[k].node].outShapes[Graph[name].inputs[k].index + 1] :
        k \in 1..Len(Graph[name].inputs) }

\* node name is dynamic, a FullyConnectedCompressed, or has a shape of rank above 6
ForcesNewRegime(name) ==
    \/ \E shape \in ShapesOf(name) : \E i \in 1..Len(shape) : shape[i] = Dyn
    \/ "FullyConnectedCompressed" \in TypeChain(Graph[name].type)
    \/ \E shape \in ShapesOf(name) : Len(shape) > 6

-----------------------------------------------------------------------------
(* C24 *)

\* the builder as build() left it after prepare_build, before the first node
BuilderAtBuild ==
    [Builder EXCEPT !.primitive_ids = pidsAtBuild,
                    !.m_topology = [live |-> TRUE, prims |-> <<>>]]

\* C24: when a topology-only build returns, every node of the list was lowered in
\* list order, the backend compiler was not invoked, there is no compiled program,
\* and the builder still holds the topology with all the lowered primitives.
C24_TopologyOnly ==
    (step = "finalize" /\ create_topology_only) =>
        /\ pc = "done"
        /\ Len(lowered) = Len(ops)
        /\ \A k \in 1..Len(ops) : lowered[k].node = ops[k]
        /\ compilerCalls = 0
        /\ ~m_program.built
        /\ m_topology.live
        /\ m_topology.prims = LowerAll(BuilderAtBuild, ops).m_topology.prims

\* a topology-only build of the list with the dynamic MatMuls has returned and the
\* builder holds the permute of mm14
C24_Witness ==
    /\ step = "finalize" /\ create_topology_only
    /\ ops[1] = "d" /\ Len(ops) = 9
    /\ m_topology.live
    /\ \E i \in 1..Len(m_topology.prims) : m_topology.prims[i].origin_op_name = "mm14"

-----------------------------------------------------------------------------
(* C25 *)

\* the cases in which the heuristic is not consulted: no flag, a dynamic operand, or
\* an operand of rank below 2
NoFixupCase(name) ==
    \/ ~Graph[name].transpose_a /\ ~Graph[name].transpose_b
    \/ \E i \in 1..Len(ShapeA(name)) : ShapeA(name)[i] = Dyn
    \/ \E i \in 1..Len(ShapeB(name)) : ShapeB(name)[i] = Dyn
    \/ Len(ShapeA(name)) < 2
    \/ Len(ShapeB(name)) < 2

\* C25: a lowered MatMul with neither flag set, with a dynamic operand shape or with
\* an operand of rank below 2 has no permutation primitive and its gemm carries the
\* node's own transpose flags.
C25_NoFixupWithoutFlagsOrStaticRank2 ==
    step \in {"lower", "finalize"} =>
        \A g \in GemmIdx :
            NoFixupCase(AllPrims[g].origin_op_name) =>
                /\ \A i \in 1..Len(AllPrims) :
                      ~(/\ AllPrims[i].type = "permute"
                        /\ AllPrims[i].origin_op_name = AllPrims[g].origin_op_name)
                /\ AllPrims[g].transpose_a = Graph[AllPrims[g].origin_op_name].transpose_a
                /\ AllPrims[g].transpose_b = Graph[AllPrims[g].origin_op_name].transpose_b

\* the MatMul over a dynamic operand with transpose_a set was lowered to a gemm that
\* keeps the flag, with no permutation
C25_Witness ==
    /\ step = "lower"
    /\ \E g \in GemmIdx :
          /\ AllPrims[g].origin_op_name = "mm12"
          /\ AllPrims[g].transpose_a /\ ~AllPrims[g].transpose_b
          /\ AllPrims[g].inputs[1].pid = "parameter:dl"
    /\ \A i \in 1..Len(AllPrims) : AllPrims[i].type # "permute"

-----------------------------------------------------------------------------
(* C26 *)

\* the permutation added for operand k of node name reads the reference the operand
\* resolved to, producer id and output index alike
ReadsResolved(name, k, suffix) ==
    \A i \in Permutes(name, suffix) :
        AllPrims[i].inputs = <<GetInputInfo(Builder, Graph[name]).infos[k]>>

\* C26: every permutation primitive of a lowered MatMul reads exactly the input
\* reference its operand resolved to: the same producer primitive id and the same
\* producer output index.
C26_PermuteReadsResolvedReference ==
    step \in {"lower", "finalize"} =>
        \A name \in LoweredMatMuls :
            /\ ReadsResolved(name, 1, "/transpose_a")
            /\ ReadsResolved(name, 2, "/transpose_b")

-----------------------------------------------------------------------------
(* C27 *)

\* the id of the last primitive the MatMul builder adds for the gemm at index g
FinalOutput(g) ==
    IF ReshapesOf(AllPrims[g].origin_op_name) # {}
    THEN AllPrims[g].id \o "_cldnn_out_reshape"
    ELSE AllPrims[g].id

\* operand k of the gemm at index h comes from the node of the gemm at index g
Consumes(h, k, g) ==
    /\ k <= Len(Graph[AllPrims[h].origin_op_name].inputs)
    /\ Graph[AllPrims[h].origin_op_name].inputs[k].node = AllPrims[g].origin_op_name

\* operand k of the gemm at index h is read, directly or through its permutation,
\* from the primitive pid
ReadsFrom(h, k, pid) ==
    \/ AllPrims[h].inputs[k].pid = pid
    \/ \E i \in 1..Len(AllPrims) :
          /\ AllPrims[i].type = "permute"
          /\ AllPrims[i].origin_op_name = AllPrims[h].origin_op_name
          /\ AllPrims[h].inputs[k].pid = AllPrims[i].id
          /\ AllPrims[i].inputs[1].pid = pid

\* C27: after a MatMul is lowered the Identity Map entry of its identity holds the
\* reshape id when a reshape was appended and the gemm id otherwise, never a
\* permutation id; a consumer lowered later, resolving through the Identity Map,
\* reads that primitive.
C27_IdentityMapsToFinalOutput ==
    step \in {"lower", "finalize"} =>
        \A g \in GemmIdx :
            /\ Has(primitive_ids, AllPrims[g].id)
            /\ primitive_ids[AllPrims[g].id] = FinalOutput(g)
            /\ ~queryMode =>
                  \A h \in GemmIdx : \A k \in 1..2 :
                      Consumes(h, k, g) => ReadsFrom(h, k, FinalOutput(g))

\* mm6 was lowered to a permutation, a gemm and a reshape; its identity maps to the
\* reshape and the consumer mm13 reads the reshape
C27_Witness ==
    /\ step = "lower" /\ ~queryMode
    /\ Permutes("mm6", "/transpose_a") # {}
    /\ primitive_ids["matmul:mm6"] = "matmul:mm6_cldnn_out_reshape"
    /\ \E h \in GemmIdx :
          /\ AllPrims[h].origin_op_name = "mm13"
          /\ AllPrims[h].inputs[1] = input_info("matmul:mm6_cldnn_out_reshape", 0)

-----------------------------------------------------------------------------
(* C28 *)

\* the builders a dispatch of node n may have invoked, given the overlay table and
\* the registry: the custom path under n's own type name, or a registry builder of
\* n's chain, or none
OwnNameDispatch(n, d) ==
    IF n.type \in m_custom_layers
    THEN d = << <<"custom", n.type>> >>
    ELSE /\ \A i \in 1..Len(d) :
              /\ d[i][1] = "factory"
              /\ d[i][2] \in TypeChain(n.type) \cap DOMAIN factories_map
         /\ d = <<>> <=> TypeChain(n.type) \cap DOMAIN factories_map = {}

\* C28: the custom path is taken exactly for a node whose own type name is in the
\* overlay table; a node whose own type has no override is lowered by a registry
\* builder of its chain or fails as unsupported, whatever overlay entries its
\* ancestors' names have.
C28_OverlayByOwnTypeName ==
    /\ step = "lower" =>
          /\ OwnNameDispatch(AttemptedNode, dispatch)
          /\ (AttemptedNode.type \notin m_custom_layers /\ dispatch = <<>>) =>
                (pc = "failed" /\ err[1] = "NotSupported")
    /\ step = "query" =>
          /\ OwnNameDispatch(Graph[lastQuery.node], dispatch)
          /\ (Graph[lastQuery.node].type \notin m_custom_layers /\ dispatch = <<>>) =>
                ~lastQuery.result

\* a FusedMatMul, whose parent MatMul has an overlay entry, was lowered by the
\* registry builder of MatMul
C28_Witness ==
    /\ step = "lower" /\ pc = "lowering"
    /\ AttemptedNode.type = "FusedMatMul"
    /\ "FusedMatMul" \notin m_custom_layers /\ "MatMul" \in m_custom_layers
    /\ dispatch = << <<"factory", "MatMul">> >>

-----------------------------------------------------------------------------
(* C29 *)

\* the builder the last query was made on, with the Identity Map ids
BuilderBeforeQuery(ids) ==
    [primitive_ids |-> ids, m_topology |-> lastQuery.before.m_topology,
     perfMap |-> lastQuery.before.perfMap, profiling_ids |-> lastQuery.before.profiling_ids,
     allow_new_shape_infer |-> lastQuery.before.allow_new_shape_infer,
     queryMode |-> lastQuery.before.queryMode, err |-> NoError, dispatch |-> <<>>]

\* that builder as is_op_supported hands it to the lowering of node n
BuilderInQuery(n) ==
    [prepare_build(EnableQueryMode(BuilderBeforeQuery(lastQuery.before.primitive_ids)))
        EXCEPT !.allow_new_shape_infer = allow_new_shape_infer]

\* resolution on builder b names every producer of n by its identity string
ResolvedByIdentity(b, n) ==
    /\ GetInputInfo(b, n).err = NoError
    /\ Len(GetInputInfo(b, n).infos) = Len(n.inputs)
    /\ \A i \in 1..Len(n.inputs) : GetInputInfo(b, n).infos[i].pid = ExpectedIdentity(n, i)

\* C29: in query mode GetInputInfo raises no unresolved-input error and returns
\* each producer's identity string (with .outN where the rule appends it), in a
\* query and in any lowering made with query mode set; the boolean a query returns
\* is the one it returns on the same builder with an empty Identity Map.
C29_QueryIgnoresIdentityMap ==
    /\ step = "query" =>
          /\ ResolvedByIdentity(BuilderInQuery(Graph[lastQuery.node]), Graph[lastQuery.node])
          /\ lastQuery.result =
                is_op_supported(BuilderBeforeQuery(EmptyMap), Graph[lastQuery.node]).result
    /\ (queryMode /\ pc = "lowering" /\ opIdx <= Len(ops)) =>
          ResolvedByIdentity(Builder, Graph[ops[opIdx]])

\* mm1 was answered supported on a builder whose Identity Map holds none of its
\* producers
C29_Witness ==
    /\ step = "query" /\ lastQuery.node = "mm1" /\ lastQuery.result
    /\ ~Has(lastQuery.before.primitive_ids, "parameter:x")
    /\ ~Has(lastQuery.before.primitive_ids, "parameter:y")
    /\ m_custom_layers = {}

-----------------------------------------------------------------------------
(* C30 *)

\* C30: after a set_shape call that raised an error the tensor's shape, layout and
\* memory object are the ones it had before the call.
C30_FailedSetShapeLeavesTensor ==
    (lastCall.op = "set_shape" /\ tensor_err # NoError) =>
        /\ m_shape = lastCall.before.m_shape
        /\ m_layout = lastCall.before.m_layout
        /\ m_memory_object = lastCall.before.m_memory_object

-----------------------------------------------------------------------------
(* C31 *)

\* strides has one entry per dimension of shape, the last is the element size and
\* each other is the next stride times the next dimension's extent
StridesMatch(et, shape, strides) ==
    /\ Len(strides) = Len(shape)
    /\ shape # <<>> => strides[Len(shape)] = element_size(et)
    /\ \A i \in 1..(Len(shape) - 1) : strides[i] = strides[i + 1] * shape[i + 1]

\* C31: for an element type of at least 8 bits the strides match the shape after
\* construction, and after a successful set_shape on a tensor whose strides matched
\* its shape before the call.
C31_StridesMatchShape ==
    (tensor_pc = "alive" /\ bitwidth(m_element_type) >= 8 /\ tensor_err = NoError) =>
        /\ lastCall.op = "construct" => StridesMatch(m_element_type, m_shape, m_strides)
        /\ (/\ lastCall.op = "set_shape"
            /\ StridesMatch(m_element_type, lastCall.before.m_shape,
                            lastCall.before.m_strides)) =>
              StridesMatch(m_element_type, m_shape, m_strides)

-----------------------------------------------------------------------------
(* C32 *)

\* the last call was a set_shape that returned, asking for more elements than the
\* memory object held
GrewBeyondCapacity ==
    shape_size(lastCall.shape) > memory_count(lastCall.before.m_memory_object)

\* C32: after the constructor or a set_shape returned without error the tensor holds
\* an allocated memory object with at least as many elements as the shape; a
\* set_shape that returned replaced the memory object, by one made for the new
\* layout, exactly when the new shape has more elements than the object held, which
\* happens for tensors that are not shared only, and kept the object otherwise.
C32_CapacityInvariant ==
    (tensor_pc = "alive" /\ tensor_err = NoError) =>
        /\ m_memory_object.live
        /\ memory_count(m_memory_object) >= shape_size(m_shape)
        /\ lastCall.op = "set_shape" =>
              IF GrewBeyondCapacity
              THEN /\ m_mem_type \in {"BT_BUF_INTERNAL", "BT_USM_HOST_INTERNAL",
                                      "BT_USM_DEVICE_INTERNAL"}
                   /\ m_memory_object # lastCall.before.m_memory_object
                   /\ m_memory_object.layout = m_layout
                   /\ m_layout.shape = lastCall.shape
              ELSE m_memory_object = lastCall.before.m_memory_object

\* an internal buffer of 2 elements was set to the shape [2,3] and now holds a memory
\* object of 6 elements
C32_Witness ==
    /\ tensor_pc = "alive" /\ tensor_err = NoError
    /\ lastCall.op = "set_shape" /\ lastCall.shape = <<2, 3>>
    /\ m_mem_type = "BT_BUF_INTERNAL"
    /\ memory_count(lastCall.before.m_memory_object) = 2
    /\ memory_count(m_memory_object) = 6
    /\ m_shape = <<2, 3>>

====
